---------------------------- MODULE Spec2Model ----------------------------
(***************************************************************************)
(* State-aggregation engine of ADS-B_TUI (src/src/app.rs) and its host     *)
(* loop (src/src/runtime.rs), as a state machine.                          *)
(*                                                                         *)
(* Conventions                                                             *)
(*  - a Rust String is a sequence of one-character strings, so that trim   *)
(*    and to_ascii_lowercase are computed and not assumed;                 *)
(*  - Option<T> is a sequence of length at most one: None == <<>>,         *)
(*    Some(x) == <<x>>;                                                    *)
(*  - a HashMap is a function whose DOMAIN is the set of keys present;     *)
(*  - SystemTime is a whole number of seconds; Duration likewise;          *)
(*  - latitudes and longitudes are whole tenths of a mile of arc, every    *)
(*    modelled position lies on the site's meridian (see distance_mi).     *)
(***************************************************************************)
EXTENDS Integers, Sequences, FiniteSets, TLC

-----------------------------------------------------------------------------
(* Option<T> *)

None == <<>>
Some(x) == <<x>>
IsSome(o) == o /= <<>>
Unwrap(o) == o[1]
UnwrapOr(o, d) == IF o = <<>> THEN d ELSE o[1]

Max(a, b) == IF a >= b THEN a ELSE b
Min(a, b) == IF a <= b THEN a ELSE b
Abs(a) == IF a >= 0 THEN a ELSE 0 - a

-----------------------------------------------------------------------------
(* Strings: str::trim, str::to_ascii_lowercase, starts_with, contains *)

UpperChars == << "A", "B", "C", "D", "E", "F", "G", "H", "I", "J", "K", "L", "M",
                 "N", "O", "P", "Q", "R", "S", "T", "U", "V", "W", "X", "Y", "Z" >>
LowerChars == << "a", "b", "c", "d", "e", "f", "g", "h", "i", "j", "k", "l", "m",
                 "n", "o", "p", "q", "r", "s", "t", "u", "v", "w", "x", "y", "z" >>

IsWhitespace(c) == c \in {" ", "\t", "\n", "\r"}

UpperToLower ==
    [c \in {UpperChars[i] : i \in 1..26} |->
        LowerChars[CHOOSE i \in 1..26 : UpperChars[i] = c]]

ToAsciiLowerChar(c) == IF c \in DOMAIN UpperToLower THEN UpperToLower[c] ELSE c

ToAsciiLowercase(s) == [i \in 1..Len(s) |-> ToAsciiLowerChar(s[i])]

Trim(s) ==
    LET keep == {i \in 1..Len(s) : ~IsWhitespace(s[i])}
    IN  IF keep = {} THEN <<>>
        ELSE LET lo == CHOOSE i \in keep : \A j \in keep : i <= j
                 hi == CHOOSE i \in keep : \A j \in keep : i >= j
             IN  SubSeq(s, lo, hi)

StartsWith(haystack, needle) ==
    /\ Len(needle) <= Len(haystack)
    /\ SubSeq(haystack, 1, Len(needle)) = needle

Contains(haystack, needle) ==
    \E i \in 1..(Len(haystack) - Len(needle) + 1) :
        SubSeq(haystack, i, i + Len(needle) - 1) = needle

normalize_hex(value) == ToAsciiLowercase(Trim(value))
normalize_callsign(value) == ToAsciiLowercase(Trim(value))
normalize_text(value) == ToAsciiLowercase(Trim(value))

-----------------------------------------------------------------------------
(* model.rs: Aircraft, ApiResponse.  Only the fields the engine's keyed    *)
(* components, the notifiers and the watchlist matcher read are kept.      *)

AircraftDefault ==
    [hex |-> None, flight |-> None, r |-> None, t |-> None, own_op |-> None,
     category |-> None, alt_baro |-> None, gs |-> None, lat |-> None, lon |-> None,
     messages |-> None]

ApiResponseDefault == [now |-> None, messages |-> None, aircraft |-> <<>>]

(* Time::duration_since: Ok(later - earlier), Err when earlier is later *)
DurationSince(later, earlier) ==
    IF later >= earlier THEN Some(later - earlier) ELSE None

-----------------------------------------------------------------------------
(* watchlist.rs: WatchEntry and its accessors *)

S_prefix == << "p", "r", "e", "f", "i", "x" >>
S_contains == << "c", "o", "n", "t", "a", "i", "n", "s" >>
S_exact == << "e", "x", "a", "c", "t" >>
S_hex == << "h", "e", "x" >>
S_icao == << "i", "c", "a", "o" >>
S_icao_hex == << "i", "c", "a", "o", "_", "h", "e", "x" >>
S_callsign == << "c", "a", "l", "l", "s", "i", "g", "n" >>
S_flight == << "f", "l", "i", "g", "h", "t" >>
S_cs == << "c", "s" >>
S_reg == << "r", "e", "g" >>
S_registration == << "r", "e", "g", "i", "s", "t", "r", "a", "t", "i", "o", "n" >>
S_type == << "t", "y", "p", "e" >>
S_owner == << "o", "w", "n", "e", "r" >>
S_operator == << "o", "p", "e", "r", "a", "t", "o", "r" >>
S_ownop == << "o", "w", "n", "o", "p" >>
S_category == << "c", "a", "t", "e", "g", "o", "r", "y" >>
S_route == << "r", "o", "u", "t", "e" >>
S_dashes == << "-", "-" >>

WatchEntryDefault ==
    [id |-> None, label |-> None, match_type |-> <<>>, value |-> <<>>,
     enabled |-> None, notify |-> None, priority |-> None, mode |-> None]

is_enabled(entry) == UnwrapOr(entry.enabled, TRUE)
notify_enabled(entry) == UnwrapOr(entry.notify, TRUE)
priority(entry) == UnwrapOr(entry.priority, 0)
match_mode(entry) == UnwrapOr(entry.mode, S_exact)

entry_id_label_first(entry) ==
    LET label == UnwrapOr(entry.label, <<>>)
    IN  IF Trim(label) /= <<>> THEN Trim(label)
        ELSE IF IsSome(entry.id) /\ Trim(Unwrap(entry.id)) /= <<>>
        THEN Trim(Unwrap(entry.id))
        ELSE entry.match_type \o << ":" >> \o entry.value

entry_id(entry) ==
    IF IsSome(entry.id) /\ Trim(Unwrap(entry.id)) /= <<>>
    THEN Trim(Unwrap(entry.id))
    ELSE LET label == UnwrapOr(entry.label, <<>>)
         IN  IF Trim(label) /= <<>>
             THEN Trim(label)
             ELSE entry.match_type \o << ":" >> \o entry.value

-----------------------------------------------------------------------------
(* app.rs: watch rule matching *)

match_text_exact(needle, haystack, mode) ==
    IF needle = <<>> THEN FALSE ELSE haystack = needle

match_text(needle, haystack, mode) ==
    IF needle = <<>> THEN FALSE
    ELSE IF mode = S_prefix THEN StartsWith(haystack, needle)
    ELSE IF mode = S_contains THEN Contains(haystack, needle)
    ELSE haystack = needle

(* the synthesized route string of a RouteInfo *)
route_text_of(info) ==
    LET od == IF /\ IsSome(info.origin) /\ IsSome(info.destination)
                 /\ Trim(Unwrap(info.origin)) /= <<>>
                 /\ Trim(Unwrap(info.destination)) /= <<>>
              THEN Unwrap(info.origin) \o << "-" >> \o Unwrap(info.destination)
              ELSE <<>>
    IN  IF od = <<>> /\ IsSome(info.route) THEN Unwrap(info.route) ELSE od

watch_entry_matches(entry, ac, route) ==
    LET match_type == ToAsciiLowercase(Trim(entry.match_type))
        mode == match_mode(entry)
        value == Trim(entry.value)
        field(opt, norm(_)) ==
            IF IsSome(opt) THEN match_text(norm(value), norm(Unwrap(opt)), mode)
            ELSE FALSE
    IN  IF value = <<>> THEN FALSE
        ELSE IF match_type \in {S_hex, S_icao, S_icao_hex}
             THEN field(ac.hex, normalize_hex)
        ELSE IF match_type \in {S_callsign, S_flight, S_cs}
             THEN field(ac.flight, normalize_callsign)
        ELSE IF match_type \in {S_reg, S_registration}
             THEN field(ac.r, normalize_text)
        ELSE IF match_type = S_type
             THEN field(ac.t, normalize_text)
        ELSE IF match_type \in {S_owner, S_operator, S_ownop}
             THEN field(ac.own_op, normalize_text)
        ELSE IF match_type = S_category
             THEN field(ac.category, normalize_text)
        ELSE IF match_type = S_route
             THEN IF route = None THEN FALSE
                  ELSE match_text(normalize_text(value),
                                  normalize_text(route_text_of(Unwrap(route))), mode)
        ELSE FALSE

(* App::route_for over a given cache *)
route_for_in(cache, ac) ==
    IF IsSome(ac.flight) /\ normalize_callsign(Unwrap(ac.flight)) \in DOMAIN cache
    THEN Some(cache[normalize_callsign(Unwrap(ac.flight))])
    ELSE IF IsSome(ac.hex) /\ normalize_hex(Unwrap(ac.hex)) \in DOMAIN cache
    THEN Some(cache[normalize_hex(Unwrap(ac.hex))])
    ELSE None

I64_MIN == -2147483647

(* whether a matching rule replaces the best so far (ties keep the first) *)
watch_entry_better_ge(best, prio, best_priority) ==
    best = None \/ prio >= best_priority

watch_entry_better(best, prio, best_priority) ==
    best = None \/ prio > best_priority

(* the loop of App::watch_entry_for from rule i on, (best, best_priority) so far *)
RECURSIVE watch_entry_loop(_, _, _, _, _, _)
watch_entry_loop(list, cache, ac, i, best, best_priority) ==
    IF i > Len(list) THEN best
    ELSE LET entry == list[i]
         IN  IF ~is_enabled(entry)
             THEN watch_entry_loop(list, cache, ac, i + 1, best, best_priority)
             ELSE IF ~watch_entry_matches(entry, ac, route_for_in(cache, ac))
             THEN watch_entry_loop(list, cache, ac, i + 1, best, best_priority)
             ELSE IF watch_entry_better(best, priority(entry), best_priority)
             THEN watch_entry_loop(list, cache, ac, i + 1, Some(entry), priority(entry))
             ELSE watch_entry_loop(list, cache, ac, i + 1, best, best_priority)

watch_entry_for_in(enabled, list, cache, ac) ==
    IF ~enabled THEN None
    ELSE watch_entry_loop(list, cache, ac, 1, None, I64_MIN)

-----------------------------------------------------------------------------
(* app.rs: helpers of the notifiers and of the watchlist editor *)

(* great-circle distance between two points of one meridian, in tenths of  *)
(* a mile (coordinates are tenths of a mile of arc): R * |dlat|            *)
distance_mi(lat1, lon1, lat2, lon2) == Abs(lat2 - lat1)

NOTIFY_RING_CAP == 10
NOTIFY_MIN_MAX_AGE == 60

(* the identity key of the notifiers: "hex:<hex>" else "flt:<callsign>" *)
notify_key(ac) ==
    IF IsSome(ac.hex)
    THEN Some(<< "h", "e", "x", ":" >> \o normalize_hex(Unwrap(ac.hex)))
    ELSE IF IsSome(ac.flight)
    THEN Some(<< "f", "l", "t", ":" >> \o normalize_callsign(Unwrap(ac.flight)))
    ELSE None

watch_notify_key(entryid, key) ==
    << "w", "a", "t", "c", "h", ":" >> \o entryid \o << ":" >> \o key

(* HashMap::insert, HashMap::retain *)
MapInsert(m, k, v) == [x \in DOMAIN m \cup {k} |-> IF x = k THEN v ELSE m[x]]
MapRetain(m, keep(_)) == [x \in {y \in DOMAIN m : keep(m[y])} |-> m[x]]

(* a maximum age of half the cooldown *)
notify_max_age_half(cooldown) == cooldown \div 2

(* max_age of a recency entry: max(4 x cooldown, 60 s) *)
notify_max_age(cooldown) == Max(cooldown * 4, NOTIFY_MIN_MAX_AGE)

(* the retain closure: entries no older than max_age (or in the future) stay *)
recency_keep(nowt, max_age, last) ==
    LET d == DurationSince(nowt, last)
    IN  IF d = None THEN TRUE ELSE Unwrap(d) <= max_age

(* should_notify: never alerted, or the cooldown has elapsed (or clock went back) *)
should_notify_lt(recent, key, nowt, cooldown) ==
    IF key \in DOMAIN recent
    THEN LET d == DurationSince(nowt, recent[key])
         IN  IF d = None THEN TRUE ELSE Unwrap(d) > cooldown
    ELSE TRUE

should_notify(recent, key, nowt, cooldown) ==
    IF key \in DOMAIN recent
    THEN LET d == DurationSince(nowt, recent[key])
         IN  IF d = None THEN TRUE ELSE Unwrap(d) >= cooldown
    ELSE TRUE

(* the trailing drain(0..excess) of both notifier passes *)
ring_truncate(notes) ==
    IF Len(notes) > NOTIFY_RING_CAP
    THEN SubSeq(notes, Len(notes) - NOTIFY_RING_CAP + 1, Len(notes))
    ELSE notes

Note(kind, label, callsign, reg, dist, at) ==
    [kind |-> kind, label |-> label, callsign |-> callsign, reg |-> reg,
     dist |-> dist, at |-> at]

make_watchlist_entry(ac) ==
    LET nonblank(opt) == IsSome(opt) /\ Trim(Unwrap(opt)) /= <<>>
        made(label, mtype, value) ==
            Some([WatchEntryDefault EXCEPT
                    !.label = Some(label), !.match_type = mtype, !.value = value,
                    !.enabled = Some(TRUE), !.notify = Some(TRUE),
                    !.priority = Some(0), !.mode = Some(S_exact)])
    IN  IF nonblank(ac.flight)
        THEN made(IF IsSome(ac.r)
                  THEN Trim(Unwrap(ac.flight)) \o << " " >> \o Unwrap(ac.r)
                  ELSE Trim(Unwrap(ac.flight)),
                  S_callsign, Trim(Unwrap(ac.flight)))
        ELSE IF nonblank(ac.hex)
        THEN made(<< "H", "E", "X", " " >> \o Trim(Unwrap(ac.hex)), S_hex,
                  Trim(Unwrap(ac.hex)))
        ELSE IF nonblank(ac.r)
        THEN made(<< "R", "E", "G", " " >> \o Trim(Unwrap(ac.r)), S_reg,
                  Trim(Unwrap(ac.r)))
        ELSE IF nonblank(ac.t)
        THEN made(<< "T", "Y", "P", "E", " " >> \o Trim(Unwrap(ac.t)), S_type,
                  Trim(Unwrap(ac.t)))
        ELSE None

watchlist_entry_key(entry) ==
    LET match_type == ToAsciiLowercase(Trim(entry.match_type))
        value == Trim(entry.value)
        normalized ==
            IF match_type \in {S_hex, S_icao, S_icao_hex} THEN normalize_hex(value)
            ELSE IF match_type \in {S_callsign, S_flight, S_cs}
            THEN normalize_callsign(value)
            ELSE normalize_text(value)
    IN  match_type \o << ":" >> \o normalized

-----------------------------------------------------------------------------
(* app.rs: merge_api_response, fill_string, fill_copy *)

(* a fill that takes the source whenever it has one *)
fill_string_overwrite(target, source) ==
    IF IsSome(source) /\ Trim(Unwrap(source)) /= <<>>
    THEN Some(Trim(Unwrap(source)))
    ELSE target

(* fill_string: a missing or blank target takes the trimmed source, unless *)
(* that is missing or blank too                                            *)
fill_string(target, source) ==
    LET missing == IF IsSome(target) THEN Trim(Unwrap(target)) = <<>> ELSE TRUE
    IN  IF missing /\ IsSome(source) /\ Trim(Unwrap(source)) /= <<>>
        THEN Some(Trim(Unwrap(source)))
        ELSE target

fill_copy(target, source) == IF target = None THEN source ELSE target

(* the entry prev_map holds under key: the last aircraft of prev with that key *)
prev_map_get(prev_aircraft, key) ==
    LET hits == {i \in 1..Len(prev_aircraft) : notify_key(prev_aircraft[i]) = Some(key)}
    IN  IF hits = {} THEN None
        ELSE Some(prev_aircraft[CHOOSE i \in hits : \A j \in hits : i >= j])

merge_aircraft(ac, prev_aircraft) ==
    LET key == notify_key(ac)
        found == IF key = None THEN None ELSE prev_map_get(prev_aircraft, Unwrap(key))
    IN  IF found = None THEN ac
        ELSE LET prev_ac == Unwrap(found)
             IN  [hex |-> fill_string(ac.hex, prev_ac.hex),
                  flight |-> fill_string(ac.flight, prev_ac.flight),
                  r |-> fill_string(ac.r, prev_ac.r),
                  t |-> fill_string(ac.t, prev_ac.t),
                  own_op |-> fill_string(ac.own_op, prev_ac.own_op),
                  category |-> fill_string(ac.category, prev_ac.category),
                  alt_baro |-> fill_copy(ac.alt_baro, prev_ac.alt_baro),
                  gs |-> fill_copy(ac.gs, prev_ac.gs),
                  lat |-> fill_copy(ac.lat, prev_ac.lat),
                  lon |-> fill_copy(ac.lon, prev_ac.lon),
                  messages |-> fill_copy(ac.messages, prev_ac.messages)]

merge_api_response(target, prev) ==
    [now |-> IF target.now = None THEN prev.now ELSE target.now,
     messages |-> IF target.messages = None THEN prev.messages ELSE target.messages,
     aircraft |-> [i \in 1..Len(target.aircraft) |->
                      merge_aircraft(target.aircraft[i], prev.aircraft)]]

(* App::swap_snapshot: the next DisplaySnapshot *)
swap_snapshot(raw, prev, merge) ==
    IF merge THEN merge_api_response(raw, prev) ELSE raw

(* apply_update's now_time: the feed's timestamp when positive, else the   *)
(* wall clock (timestamps are seconds; the millisecond rescaling of values *)
(* above 4,000,000,000 lies outside the modelled range)                    *)
now_time_of(d, wall) ==
    IF IsSome(d.now) /\ Unwrap(d.now) > 0 THEN Unwrap(d.now) ELSE wall

-----------------------------------------------------------------------------
(* app.rs: the two notifier passes.  A pass state is                       *)
(*   [recent: recency map, notes: the ring, emitted: what this pass pushed] *)

RECURSIVE proximity_loop(_, _, _, _, _, _, _, _)
proximity_loop(aircraft, i, st, nowt, site_loc, radius, overpass, cooldown) ==
    IF i > Len(aircraft) THEN st
    ELSE LET ac == aircraft[i]
             next(st2) == proximity_loop(aircraft, i + 1, st2, nowt, site_loc,
                                         radius, overpass, cooldown)
         IN  IF ac.lat = None \/ ac.lon = None THEN next(st)
             ELSE LET dist_mi == distance_mi(site_loc.lat, site_loc.lon,
                                             Unwrap(ac.lat), Unwrap(ac.lon))
                      key == notify_key(ac)
                  IN  IF dist_mi > radius THEN next(st)
                      ELSE IF key = None THEN next(st)
                      ELSE IF ~should_notify(st.recent, Unwrap(key), nowt, cooldown)
                      THEN next(st)
                      ELSE next([recent |-> MapInsert(st.recent, Unwrap(key), nowt),
                                 notes |-> Append(st.notes,
                                     Note(IF dist_mi <= overpass THEN "OVER" ELSE "NEAR",
                                          <<>>,
                                          Trim(UnwrapOr(ac.flight, S_dashes)),
                                          UnwrapOr(ac.r, S_dashes), dist_mi, nowt)),
                                 emitted |-> Append(st.emitted,
                                     [stream |-> "prox", key |-> Unwrap(key),
                                      rule |-> <<>>])])

update_notifications(aircraft, nowt, site_opt, radius, overpass, cooldown, st) ==
    IF site_opt = None THEN st
    ELSE IF radius <= 0 THEN st
    ELSE LET max_age == notify_max_age(cooldown)
             keep(last) == recency_keep(nowt, max_age, last)
             pruned == [st EXCEPT !.recent = MapRetain(st.recent, keep)]
             looped == proximity_loop(aircraft, 1, pruned, nowt, Unwrap(site_opt),
                                      radius, overpass, cooldown)
         IN  [looped EXCEPT !.notes = ring_truncate(looped.notes)]

(* the first enabled rule of the list that matches, whatever its priority *)
watch_notify_rule_first(enabled, list, cache, ac) ==
    LET hits == {i \in 1..Len(list) :
                    is_enabled(list[i])
                    /\ watch_entry_matches(list[i], ac, route_for_in(cache, ac))}
    IN  IF ~enabled \/ hits = {} THEN None
        ELSE Some(list[CHOOSE i \in hits : \A j \in hits : i <= j])

(* the rule a watch notification is raised under for one aircraft *)
watch_notify_rule(enabled, list, cache, ac) ==
    watch_entry_for_in(enabled, list, cache, ac)

RECURSIVE watchlist_loop(_, _, _, _, _, _, _, _)
watchlist_loop(aircraft, i, st, nowt, enabled, list, cache, cooldown) ==
    IF i > Len(aircraft) THEN st
    ELSE LET ac == aircraft[i]
             next(st2) == watchlist_loop(aircraft, i + 1, st2, nowt, enabled, list,
                                         cache, cooldown)
             found == watch_notify_rule(enabled, list, cache, ac)
             key == notify_key(ac)
         IN  IF found = None THEN next(st)
             ELSE IF ~notify_enabled(Unwrap(found)) THEN next(st)
             ELSE IF key = None THEN next(st)
             ELSE LET entry == Unwrap(found)
                      entryid == entry_id(entry)
                      nkey == watch_notify_key(entryid, Unwrap(key))
                      label == IF IsSome(entry.label) /\ Trim(Unwrap(entry.label)) /= <<>>
                               THEN Unwrap(entry.label) ELSE entryid
                  IN  IF ~should_notify(st.recent, nkey, nowt, cooldown) THEN next(st)
                      ELSE next([recent |-> MapInsert(st.recent, nkey, nowt),
                                 notes |-> Append(st.notes,
                                     Note("WATCH", label,
                                          Trim(UnwrapOr(ac.flight, S_dashes)),
                                          UnwrapOr(ac.r, S_dashes), 0, nowt)),
                                 emitted |-> Append(st.emitted,
                                     [stream |-> "watch", key |-> Unwrap(key),
                                      rule |-> entryid])])

update_watchlist_notifications(aircraft, nowt, enabled, list, cache, cooldown, st) ==
    IF ~enabled \/ list = <<>> THEN st
    ELSE LET max_age == notify_max_age(cooldown)
             keep(last) == recency_keep(nowt, max_age, last)
             pruned == [st EXCEPT !.recent = MapRetain(st.recent, keep)]
             looped == watchlist_loop(aircraft, 1, pruned, nowt, enabled, list,
                                      cache, cooldown)
         IN  [looped EXCEPT !.notes = ring_truncate(looped.notes)]

-----------------------------------------------------------------------------
(* app.rs: the route cache and its throttle *)

S_sp_429 == << " ", "4", "2", "9" >>
S_429_sp == << "4", "2", "9", " " >>
S_too_many_requests ==
    << "t", "o", "o", " ", "m", "a", "n", "y", " ",
       "r", "e", "q", "u", "e", "s", "t", "s" >>
S_rate_limit == << "r", "a", "t", "e", " ", "l", "i", "m", "i", "t" >>
S_retry_after_eq == << "r", "e", "t", "r", "y", "-", "a", "f", "t", "e", "r", "=" >>

is_rate_limited_message(message) ==
    LET msg == ToAsciiLowercase(message)
    IN  \/ Contains(msg, S_sp_429)
        \/ Contains(msg, S_429_sp)
        \/ Contains(msg, S_too_many_requests)
        \/ Contains(msg, S_rate_limit)

IsHintSeparator(c) == c \in {" ", "(", ")"}

(* str::split(|c| [' ', '(', ')'].contains(&c)): the parts between separators *)
RECURSIVE SplitFrom(_, _, _)
SplitFrom(s, i, cur) ==
    IF i > Len(s) THEN << cur >>
    ELSE IF IsHintSeparator(s[i]) THEN << cur >> \o SplitFrom(s, i + 1, << >>)
    ELSE SplitFrom(s, i + 1, Append(cur, s[i]))

(* str::strip_prefix *)
StripPrefix(s, prefix) ==
    IF StartsWith(s, prefix) THEN Some(SubSeq(s, Len(prefix) + 1, Len(s))) ELSE None

(* str::trim_end_matches(char) *)
RECURSIVE TrimEndMatches(_, _)
TrimEndMatches(s, c) ==
    IF s /= << >> /\ s[Len(s)] = c
    THEN TrimEndMatches(SubSeq(s, 1, Len(s) - 1), c)
    ELSE s

DigitChars == << "0", "1", "2", "3", "4", "5", "6", "7", "8", "9" >>
DigitValue == [c \in {DigitChars[i] : i \in 1..10} |->
                  (CHOOSE i \in 1..10 : DigitChars[i] = c) - 1]

RECURSIVE DigitsValue(_, _)
DigitsValue(s, acc) ==
    IF s = << >> THEN acc
    ELSE DigitsValue(Tail(s), acc * 10 + DigitValue[Head(s)])

(* str::parse::<u64>: an optional "+" and one or more decimal digits (the  *)
(* modelled messages stay far below u64::MAX, where parse would fail)      *)
ParseU64(s) ==
    LET digits == IF s /= << >> /\ Head(s) = "+" THEN Tail(s) ELSE s
    IN  IF digits /= << >> /\ \A i \in 1..Len(digits) : digits[i] \in DOMAIN DigitValue
        THEN Some(DigitsValue(digits, 0))
        ELSE None

(* find_map over the parts: the first part that yields a number *)
RECURSIVE retry_after_find_map(_, _)
retry_after_find_map(parts, i) ==
    IF i > Len(parts) THEN None
    ELSE LET rest == StripPrefix(parts[i], S_retry_after_eq)
             got == IF rest = None THEN None
                    ELSE ParseU64(TrimEndMatches(Unwrap(rest), "s"))
         IN  IF got /= None THEN got ELSE retry_after_find_map(parts, i + 1)

parse_retry_after_hint(message) ==
    retry_after_find_map(SplitFrom(message, 1, << >>), 1)

ROUTE_BACKOFF_MAX_SHIFT == 7
ROUTE_BACKOFF_CAP_SECS == 300
ROUTE_BATCH_CAP == 10

(* the backoff a literal reading "2^(min(n-1,7)) seconds" would give *)
route_backoff_duration_pow(attempts) ==
    IF attempts = 0 THEN 0
    ELSE Min(2 ^ Min(attempts - 1, ROUTE_BACKOFF_MAX_SHIFT), ROUTE_BACKOFF_CAP_SECS)

route_backoff_duration(attempts) ==
    IF attempts = 0 THEN 0
    ELSE LET shift == Min(attempts - 1, ROUTE_BACKOFF_MAX_SHIFT)
             secs == 2 * (2 ^ shift)
         IN  Min(secs, ROUTE_BACKOFF_CAP_SECS)

(* a failure note that takes every failure for a rate limit *)
note_route_failure_any(attempts, until, message, nowt) ==
    LET attempts1 == attempts + 1
        retry_after == UnwrapOr(parse_retry_after_hint(message), 0)
        backoff == Max(route_backoff_duration(attempts1), retry_after)
    IN  [attempts |-> attempts1, until |-> Some(nowt + backoff),
         limited |-> TRUE, backoff |-> backoff]

(* a failure note that starts the sequence again once the deadline passed *)
note_route_failure_restart(attempts, until, message, nowt) ==
    IF ~is_rate_limited_message(message)
    THEN [attempts |-> attempts, until |-> until, limited |-> FALSE, backoff |-> 0]
    ELSE LET attempts1 == IF until /= None /\ Unwrap(until) > nowt
                          THEN attempts + 1 ELSE 1
             retry_after == UnwrapOr(parse_retry_after_hint(message), 0)
             backoff == Max(route_backoff_duration(attempts1), retry_after)
         IN  [attempts |-> attempts1, until |-> Some(nowt + backoff),
              limited |-> TRUE, backoff |-> backoff]

(* App::note_route_failure on (route_backoff_attempts, route_backoff_until); *)
(* `backoff` is the duration it logs (0 when the message is no rate limit)   *)
note_route_failure(attempts, until, message, nowt) ==
    IF ~is_rate_limited_message(message)
    THEN [attempts |-> attempts, until |-> until, limited |-> FALSE, backoff |-> 0]
    ELSE LET attempts1 == attempts + 1
             retry_after == UnwrapOr(parse_retry_after_hint(message), 0)
             backoff == Max(route_backoff_duration(attempts1), retry_after)
         IN  [attempts |-> attempts1, until |-> Some(nowt + backoff),
              limited |-> TRUE, backoff |-> backoff]

RouteInfo(origin, destination, route, fetched_at) ==
    [origin |-> origin, destination |-> destination, route |-> route,
     fetched_at |-> fetched_at]

RECURSIVE apply_routes_cache(_, _, _)
apply_routes_cache(cache, results, nowt) ==
    IF results = << >> THEN cache
    ELSE LET route == Head(results)
         IN  apply_routes_cache(
                 MapInsert(cache, normalize_callsign(route.callsign),
                           RouteInfo(route.origin, route.destination, route.route, nowt)),
                 Tail(results), nowt)

(* a success that leaves the throttle as it was *)
apply_routes_keep_backoff(cache, results, nowt, until, attempts) ==
    [cache |-> apply_routes_cache(cache, results, nowt), error |-> None,
     until |-> until, attempts |-> attempts]

(* App::apply_routes: the cache, route_error, route_backoff_until and       *)
(* route_backoff_attempts it leaves                                         *)
apply_routes(cache, results, nowt, until, attempts) ==
    [cache |-> apply_routes_cache(cache, results, nowt), error |-> None,
     until |-> None, attempts |-> 0]

(* App::route_refresh_due: the deadline it leaves, and what it returns *)
route_backoff_active(until, nowt) ==
    until /= None /\ DurationSince(nowt, Unwrap(until)) = None

route_refresh_due_until(until, nowt) ==
    IF route_backoff_active(until, nowt) THEN until ELSE None

route_refresh_due_ignoring_backoff(until, refresh, last_poll, nowt) ==
    IF refresh = 0 THEN TRUE
    ELSE IF last_poll = None THEN TRUE
    ELSE LET d == DurationSince(nowt, Unwrap(last_poll))
         IN  IF d = None THEN FALSE ELSE Unwrap(d) >= refresh

(* a poll that is due after half the refresh interval *)
route_refresh_due_half(until, refresh, last_poll, nowt) ==
    IF route_backoff_active(until, nowt) THEN FALSE
    ELSE IF refresh = 0 THEN TRUE
    ELSE IF last_poll = None THEN TRUE
    ELSE LET d == DurationSince(nowt, Unwrap(last_poll))
         IN  IF d = None THEN FALSE ELSE Unwrap(d) * 2 >= refresh

route_refresh_due(until, refresh, last_poll, nowt) ==
    IF route_backoff_active(until, nowt) THEN FALSE
    ELSE IF refresh = 0 THEN TRUE
    ELSE IF last_poll = None THEN TRUE
    ELSE LET d == DurationSince(nowt, Unwrap(last_poll))
         IN  IF d = None THEN FALSE ELSE Unwrap(d) >= refresh

(* collect_route_requests: the cache entry of key is still fresh *)
route_cache_fresh_le(cache, key, ttl, nowt) ==
    /\ ttl /= 0
    /\ key \in DOMAIN cache
    /\ LET d == DurationSince(nowt, cache[key].fetched_at)
       IN  IF d = None THEN TRUE ELSE Unwrap(d) <= ttl

route_cache_fresh(cache, key, ttl, nowt) ==
    /\ ttl /= 0
    /\ key \in DOMAIN cache
    /\ LET d == DurationSince(nowt, cache[key].fetched_at)
       IN  IF d = None THEN TRUE ELSE Unwrap(d) < ttl

(* collect_route_requests: key was requested within the refresh interval *)
route_request_recent_never(last_request, key, refresh, nowt) == FALSE

route_request_recent(last_request, key, refresh, nowt) ==
    /\ refresh /= 0
    /\ key \in DOMAIN last_request
    /\ LET d == DurationSince(nowt, last_request[key])
       IN  IF d = None THEN TRUE ELSE Unwrap(d) < refresh

RouteRequest(callsign, lat, lon) == [callsign |-> callsign, lat |-> lat, lon |-> lon]

(* the loop of collect_route_requests from position i of indices on; st is  *)
(* [last_request: route_last_request, requests: the batch so far]           *)
RECURSIVE collect_route_loop(_, _, _, _, _, _, _, _, _)
collect_route_loop(indices, i, aircraft, cache, ttl, refresh, batch_limit, nowt, st) ==
    IF i > Len(indices) THEN st
    ELSE IF Len(st.requests) >= batch_limit THEN st
    ELSE LET ac == aircraft[indices[i] + 1]
             callsign == Trim(UnwrapOr(ac.flight, << >>))
             key == normalize_callsign(callsign)
             next(st2) == collect_route_loop(indices, i + 1, aircraft, cache, ttl,
                                             refresh, batch_limit, nowt, st2)
         IN  IF callsign = << >> THEN next(st)
             ELSE IF route_cache_fresh(cache, key, ttl, nowt) THEN next(st)
             ELSE IF route_request_recent(st.last_request, key, refresh, nowt)
             THEN next(st)
             ELSE next([last_request |-> MapInsert(st.last_request, key, nowt),
                        requests |-> Append(st.requests,
                            RouteRequest(callsign, UnwrapOr(ac.lat, 0),
                                         UnwrapOr(ac.lon, 0)))])

(* collect_route_requests without its guard on route_enabled *)
collect_route_requests_always(enabled, indices, aircraft, cache, last_request, ttl, refresh, batch, nowt) ==
    collect_route_loop(indices, 1, aircraft, cache, ttl, refresh,
                       Min(batch, ROUTE_BATCH_CAP), nowt,
                       [last_request |-> last_request, requests |-> << >>])

collect_route_requests(enabled, indices, aircraft, cache, last_request, ttl, refresh, batch, nowt) ==
    IF ~enabled THEN [last_request |-> last_request, requests |-> << >>]
    ELSE collect_route_loop(indices, 1, aircraft, cache, ttl, refresh,
                            Min(batch, ROUTE_BATCH_CAP), nowt,
                            [last_request |-> last_request, requests |-> << >>])

-----------------------------------------------------------------------------
(* app.rs: the global message-rate estimator (App::update_rate,            *)
(* App::apply_rate_decay).  Times are seconds, durations of the rate       *)
(* configuration milliseconds; a rate is kept in thousandths of a message  *)
(* per second, and the f64 arithmetic is fixed-point with truncation.      *)

DurationMs(later, earlier) ==
    IF later >= earlier THEN Some((later - earlier) * 1000) ELSE None

RATE_HOLD_MIN_MS == 2000
RATE_TAU_MIN_MS == 3000
EXP_TERMS == 40

(* delta_msgs / secs, in thousandths of a message per second *)
rate_of(delta_msgs, secs_ms) == (delta_msgs * 1000 * 1000) \div secs_ms

(* u64::saturating_sub *)
saturating_sub(a, b) == IF a >= b THEN a - b ELSE 0

(* 1000 * e^(num/den) by its series, term by term *)
RECURSIVE exp_series(_, _, _, _, _)
exp_series(num, den, k, term, acc) ==
    IF term = 0 \/ k > EXP_TERMS THEN acc
    ELSE LET next == (term * num) \div (den * k)
         IN  exp_series(num, den, k + 1, next, acc + next)

(* (-dt / tau).exp(), in thousandths *)
exp_neg(dt_ms, tau_ms) ==
    (1000 * 1000) \div exp_series(dt_ms \div 100, tau_ms \div 100, 1, 1000, 1000)

(* the decay that leaves a positive estimate where it is *)
apply_rate_decay_hold(rs, now_time, window) == rs

(* the decay that starts when the hold is reached, not when it is passed *)
apply_rate_decay_lt(rs, now_time, window) ==
    IF rs.msg_rate_ema = None THEN rs
    ELSE LET prev == Unwrap(rs.msg_rate_ema)
             last == UnwrapOr(rs.last_msg_time, now_time)
             dt == UnwrapOr(DurationMs(now_time, last), 0)
             hold == Max(window, RATE_HOLD_MIN_MS)
             tau == Max(window * 4, RATE_TAU_MIN_MS)
             ema == Max((prev * exp_neg(dt, tau)) \div 1000, 0)
         IN  IF dt < hold THEN rs
             ELSE [rs EXCEPT !.msg_rate_ema = Some(ema), !.msg_rate = Some(ema),
                             !.msg_rate_display = Some(ema)]

(* App::apply_rate_decay *)
apply_rate_decay(rs, now_time, window) ==
    IF rs.msg_rate_ema = None THEN rs
    ELSE LET prev == Unwrap(rs.msg_rate_ema)
             last == UnwrapOr(rs.last_msg_time, now_time)
             dt == UnwrapOr(DurationMs(now_time, last), 0)
             hold == Max(window, RATE_HOLD_MIN_MS)
             tau == Max(window * 4, RATE_TAU_MIN_MS)
             ema == Max((prev * exp_neg(dt, tau)) \div 1000, 0)
         IN  IF dt <= hold THEN rs
             ELSE [rs EXCEPT !.msg_rate_ema = Some(ema), !.msg_rate = Some(ema),
                             !.msg_rate_display = Some(ema)]

(* the pruning loop: samples older than the window leave from the front *)
RECURSIVE prune_samples(_, _, _)
prune_samples(samples, now_time, window) ==
    IF samples = << >> THEN samples
    ELSE LET d == DurationMs(now_time, Head(samples).t)
         IN  IF d /= None /\ Unwrap(d) > window
             THEN prune_samples(Tail(samples), now_time, window)
             ELSE samples

(* a reset of the counter that keeps the window and the EMA *)
rate_counter_reset_keep(rs, messages) == rs

(* the counter went back: the window, the EMA and the display are cleared *)
rate_counter_reset(rs, messages) ==
    IF rs.last_msg_total /= None /\ messages < Unwrap(rs.last_msg_total)
    THEN [rs EXCEPT !.msg_samples = << >>, !.msg_rate_ema = None,
                    !.msg_rate_display = None]
    ELSE rs

(* window_rate and short_rate: Some(<<delta_msgs, secs>>) or None *)
window_rate(samples, min_secs) ==
    IF samples = << >> THEN None
    ELSE LET s0 == samples[1]
             s1 == samples[Len(samples)]
             delta_t == DurationMs(s1.t, s0.t)
         IN  IF delta_t = None THEN None
             ELSE Some(<< saturating_sub(s1.m, s0.m), Max(Unwrap(delta_t), min_secs) >>)

short_rate(samples, min_secs) ==
    IF Len(samples) < 2 THEN None
    ELSE LET s0 == samples[Len(samples) - 1]
             s1 == samples[Len(samples)]
             delta_t == DurationMs(s1.t, s0.t)
         IN  IF delta_t = None THEN None
             ELSE Some(<< saturating_sub(s1.m, s0.m),
                          Max(Unwrap(delta_t), min_secs \div 2) >>)

(* the blended instantaneous rate, None where the code returns *)
inst_rate(short, win) ==
    IF short /= None /\ win /= None
    THEN Some((7 * rate_of(Unwrap(short)[1], Unwrap(short)[2])
               + 3 * rate_of(Unwrap(win)[1], Unwrap(win)[2])) \div 10)
    ELSE IF short /= None THEN Some(rate_of(Unwrap(short)[1], Unwrap(short)[2]))
    ELSE IF win /= None THEN Some(rate_of(Unwrap(win)[1], Unwrap(win)[2]))
    ELSE None

(* App::update_rate *)
update_rate(rs, messages_opt, now_time, window, min_secs) ==
    IF messages_opt = None THEN rs
    ELSE LET messages == Unwrap(messages_opt)
             r1 == rate_counter_reset(rs, messages)
         IN  IF rs.last_msg_total = Some(messages)
             THEN apply_rate_decay(r1, now_time, window)
             ELSE LET r2 == [r1 EXCEPT !.last_msg_total = Some(messages),
                                       !.last_msg_time = Some(now_time),
                                       !.msg_samples =
                                           prune_samples(Append(r1.msg_samples,
                                               [t |-> now_time, m |-> messages]),
                                               now_time, window)]
                      inst == inst_rate(short_rate(r2.msg_samples, min_secs),
                                        window_rate(r2.msg_samples, min_secs))
                  IN  IF inst = None THEN r2
                      ELSE IF Unwrap(inst) <= 0
                      THEN apply_rate_decay(r2, now_time, window)
                      ELSE LET ema == IF r2.msg_rate_ema = None THEN Unwrap(inst)
                                      ELSE (45 * Unwrap(inst)
                                            + 55 * Unwrap(r2.msg_rate_ema)) \div 100
                           IN  [r2 EXCEPT !.msg_rate_ema = Some(ema),
                                          !.msg_rate = Some(ema),
                                          !.msg_rate_display = Some(ema)]

-----------------------------------------------------------------------------
(* app.rs: the per-aircraft rate table (App::update_aircraft_rates), in    *)
(* the arithmetic of the global estimator.  An AircraftRate is             *)
(* [last_messages, last_time, last_rate_time, ema, rate].                  *)

aircraft_rate_key(ac) ==
    IF ac.hex /= None
    THEN Some(<< "h", "e", "x", ":" >> \o normalize_hex(Unwrap(ac.hex)))
    ELSE IF ac.flight /= None
    THEN Some(<< "f", "l", "t", ":" >> \o normalize_callsign(Unwrap(ac.flight)))
    ELSE None

(* a counter that went back, handled by keeping the EMA *)
aircraft_rate_reset_keep(entry, messages, now_time) ==
    [entry EXCEPT !.last_messages = messages, !.last_time = now_time,
                  !.last_rate_time = now_time]

(* messages < entry.last_messages *)
aircraft_rate_reset(entry, messages, now_time) ==
    [entry EXCEPT !.ema = None, !.rate = None, !.last_messages = messages,
                  !.last_time = now_time, !.last_rate_time = now_time]

(* messages > entry.last_messages *)
aircraft_rate_advance(entry, messages, now_time, min_secs) ==
    LET delta_t == DurationMs(now_time, entry.last_time)
        inst == rate_of(messages - entry.last_messages,
                        Max(Unwrap(delta_t), min_secs))
        ema == IF entry.ema = None THEN inst
               ELSE (45 * inst + 55 * Unwrap(entry.ema)) \div 100
        e1 == IF delta_t = None THEN entry
              ELSE [entry EXCEPT !.ema = Some(ema), !.rate = Some(ema)]
    IN  [e1 EXCEPT !.last_messages = messages, !.last_time = now_time,
                   !.last_rate_time = now_time]

(* messages = entry.last_messages *)
aircraft_rate_decay(entry, now_time, window) ==
    IF entry.ema = None THEN entry
    ELSE LET since_change == UnwrapOr(DurationMs(now_time, entry.last_time), 0)
             hold == Max(window, RATE_HOLD_MIN_MS)
             dt == UnwrapOr(DurationMs(now_time, entry.last_rate_time), 0)
             tau == Max(window * 4, RATE_TAU_MIN_MS)
             ema == Max((Unwrap(entry.ema) * exp_neg(dt, tau)) \div 1000, 0)
         IN  IF since_change > hold /\ dt > 0
             THEN [entry EXCEPT !.ema = Some(ema), !.rate = Some(ema),
                                !.last_rate_time = now_time]
             ELSE entry

(* a table that keeps the entries of vanished aircraft *)
retain_present_all(rates, present) == rates

(* aircraft_rates.retain(|key, _| present.contains(key)) *)
retain_present(rates, present) ==
    [k \in DOMAIN rates \cap present |-> rates[k]]

(* the loop over the records; st is [rates, present, sum, count] *)
RECURSIVE aircraft_rates_loop(_, _, _, _, _, _)
aircraft_rates_loop(aircraft, i, st, now_time, window, min_secs) ==
    IF i > Len(aircraft) THEN st
    ELSE LET ac == aircraft[i]
             key == aircraft_rate_key(ac)
         IN  IF key = None
             THEN aircraft_rates_loop(aircraft, i + 1, st, now_time, window, min_secs)
             ELSE IF ac.messages = None
             THEN aircraft_rates_loop(aircraft, i + 1,
                      [st EXCEPT !.present = @ \cup {Unwrap(key)}],
                      now_time, window, min_secs)
             ELSE LET k == Unwrap(key)
                      messages == Unwrap(ac.messages)
                      entry == IF k \in DOMAIN st.rates THEN st.rates[k]
                               ELSE [last_messages |-> messages, last_time |-> now_time,
                                     last_rate_time |-> now_time, ema |-> None,
                                     rate |-> None]
                      after == IF messages < entry.last_messages
                               THEN aircraft_rate_reset(entry, messages, now_time)
                               ELSE IF messages > entry.last_messages
                               THEN aircraft_rate_advance(entry, messages, now_time,
                                                          min_secs)
                               ELSE aircraft_rate_decay(entry, now_time, window)
                  IN  aircraft_rates_loop(aircraft, i + 1,
                          [rates |-> MapInsert(st.rates, k, after),
                           present |-> st.present \cup {k},
                           sum |-> IF after.rate = None THEN st.sum
                                   ELSE st.sum + Unwrap(after.rate),
                           count |-> IF after.rate = None THEN st.count
                                     ELSE st.count + 1],
                          now_time, window, min_secs)

(* App::update_aircraft_rates: the table and the average.  The total rate *)
(* it hands to update_total_aircraft_rate is a separate estimator that no  *)
(* property below reads; it is not part of this state.                     *)
update_aircraft_rates(aircraft, rates, now_time, window, min_secs) ==
    LET st == aircraft_rates_loop(aircraft, 1,
                  [rates |-> rates, present |-> {}, sum |-> 0, count |-> 0],
                  now_time, window, min_secs)
    IN  [rates |-> retain_present(st.rates, st.present),
         avg |-> IF st.count > 0 THEN Some(st.sum \div st.count) ELSE None]

-----------------------------------------------------------------------------
(* app.rs: the trend tracker (compare_i64, compare_f64, App::update_trends, *)
(* App::trend_for) and the trail buffer (App::update_trails, trail_for).    *)
(* Both key an aircraft by normalize_hex(hex) alone.                        *)

compare_i64(prev, current) ==
    IF prev /= None /\ current /= None /\ Unwrap(current) > Unwrap(prev) THEN "Up"
    ELSE IF prev /= None /\ current /= None /\ Unwrap(current) < Unwrap(prev) THEN "Down"
    ELSE IF prev /= None /\ current /= None THEN "Flat"
    ELSE "Unknown"

compare_f64(prev, current) ==
    IF prev /= None /\ current /= None /\ Unwrap(current) > Unwrap(prev) THEN "Up"
    ELSE IF prev /= None /\ current /= None /\ Unwrap(current) < Unwrap(prev) THEN "Down"
    ELSE IF prev /= None /\ current /= None THEN "Flat"
    ELSE "Unknown"

MetricsDefault == [alt_baro |-> None, gs |-> None]
TrendUnknown == [alt |-> "Unknown", gs |-> "Unknown"]

(* the metrics a trend tracker would store when it kept a known value over *)
(* a missing one                                                           *)
trend_metrics_keep_known(prev, ac) ==
    [alt_baro |-> IF ac.alt_baro = None THEN prev.alt_baro ELSE ac.alt_baro,
     gs |-> IF ac.gs = None THEN prev.gs ELSE ac.gs]

(* the Metrics update_trends stores for the key: the current values *)
trend_metrics(prev, ac) == [alt_baro |-> ac.alt_baro, gs |-> ac.gs]

(* ts is [last_metrics, trend_cache] *)
RECURSIVE update_trends(_, _, _)
update_trends(aircraft, i, ts) ==
    IF i > Len(aircraft) THEN ts
    ELSE LET ac == aircraft[i]
         IN  IF ac.hex = None THEN update_trends(aircraft, i + 1, ts)
             ELSE LET key == normalize_hex(Unwrap(ac.hex))
                      prev == IF key \in DOMAIN ts.last_metrics
                              THEN ts.last_metrics[key] ELSE MetricsDefault
                      trend == [alt |-> compare_i64(prev.alt_baro, ac.alt_baro),
                                gs |-> compare_f64(prev.gs, ac.gs)]
                  IN  update_trends(aircraft, i + 1,
                          [last_metrics |-> MapInsert(ts.last_metrics, key,
                                                      trend_metrics(prev, ac)),
                           trend_cache |-> MapInsert(ts.trend_cache, key, trend)])

(* the threshold of 0.00001 degrees, in units of the position grid *)
TRAIL_EPS == 2

(* a near-duplicate test that takes the threshold itself as near *)
trail_near_le(last, lat, lon) ==
    Abs(last.lat - lat) <= TRAIL_EPS /\ Abs(last.lon - lon) <= TRAIL_EPS

(* the near-duplicate test of update_trails *)
trail_near(last, lat, lon) ==
    Abs(last.lat - lat) < TRAIL_EPS /\ Abs(last.lon - lon) < TRAIL_EPS

(* a truncation that drops the newest points *)
trail_truncate_newest(entry, max_len) ==
    IF Len(entry) > max_len THEN SubSeq(entry, 1, max_len) ELSE entry

(* entry.drain(0..excess) *)
trail_truncate(entry, max_len) ==
    IF Len(entry) > max_len
    THEN SubSeq(entry, Len(entry) - max_len + 1, Len(entry))
    ELSE entry

(* the key update_trails stores a trail under, if any *)
trail_key(ac) == IF ac.hex = None THEN None ELSE Some(normalize_hex(Unwrap(ac.hex)))

RECURSIVE update_trails(_, _, _, _, _)
update_trails(aircraft, i, points, now_time, trail_len_cfg) ==
    IF i > Len(aircraft) THEN points
    ELSE LET ac == aircraft[i]
             max_len == Max(trail_len_cfg, 1)
         IN  IF ac.hex = None \/ ac.lat = None \/ ac.lon = None
             THEN update_trails(aircraft, i + 1, points, now_time, trail_len_cfg)
             ELSE LET key == normalize_hex(Unwrap(ac.hex))
                      entry == IF key \in DOMAIN points THEN points[key] ELSE << >>
                      lat == Unwrap(ac.lat)
                      lon == Unwrap(ac.lon)
                  IN  IF entry /= << >> /\ trail_near(entry[Len(entry)], lat, lon)
                      THEN update_trails(aircraft, i + 1,
                               MapInsert(points, key, entry), now_time, trail_len_cfg)
                      ELSE update_trails(aircraft, i + 1,
                               MapInsert(points, key,
                                   trail_truncate(
                                       Append(entry, [lat |-> lat, lon |-> lon,
                                                      at |-> now_time]), max_len)),
                               now_time, trail_len_cfg)

-----------------------------------------------------------------------------
(* The state: the fields of App, the two route channels, the host loop's   *)
(* position, and history variables (g_*, last_op, emitted, returned).      *)

VARIABLES
    now,                    \* the wall clock, SystemTime::now()
    \* configuration fields of App, fixed by App::new
    site, demo_mode, notify_radius_mi, overpass_mi, notify_cooldown,
    watchlist_path, smooth_mode, smooth_merge,
    route_enabled, route_tar1090, route_ttl, route_refresh, route_batch,
    trail_len, ui_interval, msg_rate_window, msg_rate_min_secs,
    \* snapshots
    data, raw_data, last_update, last_error, last_swap,
    \* the global rate estimator
    last_msg_total, last_msg_time, msg_samples, msg_rate_ema, msg_rate,
    msg_rate_display,
    \* the per-aircraft rate table and the rates derived from it
    aircraft_rates, avg_aircraft_rate,
    \* trends and trails
    last_metrics, trend_cache, trail_points,
    \* notifiers
    notified_recent, watch_notified_recent, notifications,
    \* watchlist
    watchlist_enabled, watchlist, watchlist_cursor,
    \* route cache and throttle
    route_last_poll, route_cache, route_last_request,
    route_backoff_until, route_backoff_attempts, route_error,
    \* run_app: position in the loop body, the channels to and from the route worker
    pc, req_q, res_q,
    \* the fetch channel, whether run_app still holds its ends of the channels,
    \* and the positions of the fetch worker and the route worker
    snap_q, feed_open, fetcher_pc, worker_pc,
    \* spawn_fetcher: the sources (attempts, backoff_until), the index of the
    \* current one, the worker's clock and its sleep, in milliseconds
    sources, current, fetch_clock, fetch_sleep,
    \* history
    last_op,                \* the operation the last step performed
    emitted,                \* the notifications the last step pushed, in order
    returned,               \* what the last operation returned
    g_prox_alert,           \* key -> time of the last proximity notification pushed
    g_watch_alert,          \* <<rule id, key>> -> time of the last watch notification
    g_prev_prox, g_prev_watch,  \* the two maps above as they were before the last step
    g_issued,               \* route key -> the last two times a request for it was returned
    g_backoffs,             \* the last two rate-limit failures since the last success
    g_deadline,             \* the latest deadline any rate-limit failure has set
    g_prev_rate,            \* the rate estimator as it was before the last apply_update
    g_prev_track,           \* trends and trails as they were before the last apply_update
    g_prev_swap,            \* last_swap as it was before the last maybe_swap_snapshot
    g_prev_aircraft_rates,  \* aircraft_rates as it was before the last apply_update
    g_sent,                 \* every message the fetch worker has sent, in order
    g_applied,              \* every message run_app has taken from the fetch channel
    g_avail,                \* how many messages had been sent when the iteration began
    g_fetch,                \* the last fetch: its source, its time and the source before it
    \* the lookup modal of App, its channels and its worker
    input_mode, lookup_input, lookup_status, lookup_results, lookup_busy,
    lookup_req_q,           \* LookupChannels::req_tx -> the worker's rx
    lookup_res_q,           \* the worker's tx -> LookupChannels::res_rx
    lookup_worker,          \* the request the lookup worker is fetching, if any
    g_lookup_issued,        \* how many requests prepare_lookup_request has handed out
    g_lookup_applied        \* the number of the request whose message was applied last

cfgVars == << site, demo_mode, notify_radius_mi, overpass_mi, notify_cooldown,
              watchlist_path, smooth_mode, smooth_merge,
              route_enabled, route_tar1090, route_ttl, route_refresh, route_batch,
              trail_len, ui_interval, msg_rate_window, msg_rate_min_secs >>
rateVars == << last_msg_total, last_msg_time, msg_samples, msg_rate_ema, msg_rate,
               msg_rate_display, g_prev_rate,
               aircraft_rates, avg_aircraft_rate, g_prev_aircraft_rates >>
trackVars == << last_metrics, trend_cache, trail_points, g_prev_track >>
snapVars == << data, raw_data, last_update, last_error, last_swap, g_prev_swap,
              rateVars, trackVars >>
notifyVars == << notified_recent, watch_notified_recent, notifications >>
watchVars == << watchlist_enabled, watchlist, watchlist_cursor >>
routeVars == << route_last_poll, route_cache, route_last_request,
                route_backoff_until, route_backoff_attempts, route_error >>
srcVars == << sources, current, fetch_clock, fetch_sleep, g_fetch >>
lookVars == << input_mode, lookup_input, lookup_status, lookup_results, lookup_busy,
              lookup_req_q, lookup_res_q, lookup_worker,
              g_lookup_issued, g_lookup_applied >>
sideVars == << srcVars, lookVars >>
feedVars == << snap_q, feed_open, fetcher_pc, worker_pc, g_sent, g_applied, g_avail,
              sideVars >>
hostVars == << pc, req_q, res_q, feedVars >>
alertHist == << g_prox_alert, g_watch_alert, g_prev_prox, g_prev_watch >>
routeHist == << g_issued, g_backoffs, g_deadline >>

vars == << now, cfgVars, snapVars, notifyVars, watchVars, routeVars, hostVars,
           last_op, emitted, returned, alertHist, routeHist >>

(* a site that demo mode does not hide *)
site_of_shown == site

(* App::site *)
site_of == IF demo_mode THEN None ELSE site

(* App::watch_entry_for, App::is_watchlisted, App::route_for on the state *)
watch_entry_for(ac) == watch_entry_for_in(watchlist_enabled, watchlist, route_cache, ac)
is_watchlisted(ac) == watch_entry_for(ac) /= None
route_for(ac) == route_for_in(route_cache, ac)

(* App::trend_for and App::trail_for *)
trend_for(ac) ==
    IF ac.hex /= None /\ normalize_hex(Unwrap(ac.hex)) \in DOMAIN trend_cache
    THEN trend_cache[normalize_hex(Unwrap(ac.hex))]
    ELSE TrendUnknown

trail_for(ac) ==
    IF ac.hex /= None /\ normalize_hex(Unwrap(ac.hex)) \in DOMAIN trail_points
    THEN Some(trail_points[normalize_hex(Unwrap(ac.hex))])
    ELSE None

-----------------------------------------------------------------------------
(* Bounds of the model *)

MaxTime == 24
MaxNotes == 12
MaxRules == 3
MaxAttempts == 9
MaxQueue == 2

(* The smallest trail, the default UI interval (10 fps) and the default    *)
(* rate window and divisor floor, in milliseconds                         *)
EngineConfigSmall ==
    /\ trail_len = 1 /\ ui_interval = 100
    /\ msg_rate_window = 300 /\ msg_rate_min_secs = 250

(* The state App::new builds, but for the configuration, with the         *)
(* channels empty and the workers started                                  *)
InitFields ==
    /\ now = 0
    /\ data = ApiResponseDefault /\ raw_data = ApiResponseDefault
    /\ last_update = None /\ last_error = None /\ last_swap = None
    /\ last_msg_total = None /\ last_msg_time = None /\ msg_samples = << >>
    /\ msg_rate_ema = None /\ msg_rate = None /\ msg_rate_display = None
    /\ last_metrics = << >> /\ trend_cache = << >> /\ trail_points = << >>
    /\ notified_recent = << >> /\ watch_notified_recent = << >>
    /\ notifications = << >>
    /\ watchlist_cursor = 0
    /\ route_last_poll = None /\ route_cache = << >> /\ route_last_request = << >>
    /\ route_backoff_until = None /\ route_backoff_attempts = 0
    /\ route_error = None
    /\ req_q = << >> /\ res_q = << >>
    /\ snap_q = << >> /\ feed_open = TRUE
    /\ fetcher_pc = "fetch" /\ worker_pc = "recv"
    /\ g_sent = << >> /\ g_applied = << >> /\ g_avail = 0
    /\ current = 0 /\ fetch_clock = 0 /\ g_fetch = None
    /\ input_mode = "Normal" /\ lookup_input = << >>
    /\ lookup_status = None /\ lookup_results = None /\ lookup_busy = FALSE
    /\ lookup_req_q = << >> /\ lookup_res_q = << >> /\ lookup_worker = None
    /\ g_lookup_issued = 0 /\ g_lookup_applied = None
    /\ last_op = "new" /\ emitted = << >> /\ returned = None
    /\ g_prox_alert = << >> /\ g_watch_alert = << >>
    /\ g_prev_prox = << >> /\ g_prev_watch = << >>
    /\ g_issued = << >> /\ g_backoffs = << >>
    /\ g_deadline = 0
    /\ g_prev_rate = [last_msg_total |-> None, last_msg_time |-> None,
                      msg_samples |-> << >>, msg_rate_ema |-> None,
                      msg_rate |-> None, msg_rate_display |-> None]
    /\ g_prev_track = [last_metrics |-> << >>, trend_cache |-> << >>,
                       trail_points |-> << >>]
    /\ g_prev_swap = None
    /\ aircraft_rates = << >> /\ avg_aircraft_rate = None
    /\ g_prev_aircraft_rates = << >>

(* one source that has not been tried, polled at the default 200 ms *)
SourceFresh == [attempts |-> 0, backoff_until |-> None]
InitOneSource == sources = << SourceFresh >> /\ fetch_sleep = 200

InitState == InitFields /\ InitOneSource /\ pc = "drain"

-----------------------------------------------------------------------------
(* Time passes *)

Tick(d) ==
    /\ d > 0
    /\ now + d <= MaxTime
    /\ now' = now + d
    /\ last_op' = "tick" /\ emitted' = << >> /\ returned' = None
    /\ g_prev_prox' = g_prox_alert /\ g_prev_watch' = g_watch_alert
    /\ UNCHANGED << g_prox_alert, g_watch_alert >>
    /\ UNCHANGED << cfgVars, snapVars, notifyVars, watchVars, routeVars, hostVars,
                    routeHist >>

(* the history of alerts after a pass that pushed `pushed` at time nowt *)
RECURSIVE alerts_after(_, _, _, _)
alerts_after(hist, pushed, stream, nowt) ==
    IF pushed = << >> THEN hist
    ELSE LET e == Head(pushed)
             k == IF stream = "prox" THEN e.key ELSE << e.rule, e.key >>
         IN  alerts_after(IF e.stream = stream THEN MapInsert(hist, k, nowt) ELSE hist,
                          Tail(pushed), stream, nowt)

-----------------------------------------------------------------------------
(* App::apply_update *)

(* the rate state of App as a record, and back *)
rate_state ==
    [last_msg_total |-> last_msg_total, last_msg_time |-> last_msg_time,
     msg_samples |-> msg_samples, msg_rate_ema |-> msg_rate_ema,
     msg_rate |-> msg_rate, msg_rate_display |-> msg_rate_display]

(* an update that publishes whatever the smoothing mode *)
apply_update_data_always(d, prev, smooth, merge) == swap_snapshot(d, prev, merge)

(* the DisplaySnapshot apply_update leaves: republished at once when       *)
(* smoothing is off                                                        *)
apply_update_data(d, prev, smooth, merge) ==
    IF ~smooth THEN swap_snapshot(d, prev, merge) ELSE prev

ApplyUpdateStep(d) ==
    \E now_time \in {now_time_of(d, now)} :
    \E rs \in {update_rate(rate_state, d.messages, now_time, msg_rate_window,
                           msg_rate_min_secs)} :
    \E ar \in {update_aircraft_rates(d.aircraft, aircraft_rates, now_time,
                                      msg_rate_window, msg_rate_min_secs)} :
    \E ts \in {update_trends(d.aircraft, 1, [last_metrics |-> last_metrics,
                                              trend_cache |-> trend_cache])} :
    \E st1 \in {update_notifications(d.aircraft, now_time, site_of, notify_radius_mi,
                    overpass_mi, notify_cooldown,
                    [recent |-> notified_recent, notes |-> notifications,
                     emitted |-> << >>])} :
    \E st2 \in {update_watchlist_notifications(d.aircraft, now_time, watchlist_enabled,
                    watchlist, route_cache, notify_cooldown,
                    [recent |-> watch_notified_recent, notes |-> st1.notes,
                     emitted |-> st1.emitted])} :
        /\ notified_recent' = st1.recent
        /\ watch_notified_recent' = st2.recent
        /\ notifications' = st2.notes
        /\ raw_data' = d
        /\ last_msg_total' = rs.last_msg_total /\ last_msg_time' = rs.last_msg_time
        /\ msg_samples' = rs.msg_samples /\ msg_rate_ema' = rs.msg_rate_ema
        /\ msg_rate' = rs.msg_rate /\ msg_rate_display' = rs.msg_rate_display
        /\ last_metrics' = ts.last_metrics /\ trend_cache' = ts.trend_cache
        /\ trail_points' = update_trails(d.aircraft, 1, trail_points, now_time, trail_len)
        /\ g_prev_rate' = rate_state
        /\ aircraft_rates' = ar.rates /\ avg_aircraft_rate' = ar.avg
        /\ g_prev_aircraft_rates' = aircraft_rates
        /\ g_prev_track' = [last_metrics |-> last_metrics, trend_cache |-> trend_cache,
                            trail_points |-> trail_points]
        /\ data' = apply_update_data(d, data, smooth_mode, smooth_merge)
        /\ last_update' = Some(now_time)
        /\ last_error' = None
        /\ UNCHANGED << last_swap, g_prev_swap >>
        /\ last_op' = "apply_update" /\ emitted' = st2.emitted /\ returned' = None
        /\ g_prev_prox' = g_prox_alert /\ g_prev_watch' = g_watch_alert
        /\ g_prox_alert' = alerts_after(g_prox_alert, st2.emitted, "prox", now_time)
        /\ g_watch_alert' = alerts_after(g_watch_alert, st2.emitted, "watch", now_time)
        /\ UNCHANGED << now, cfgVars, watchVars, routeVars, routeHist >>

ApplyUpdate(d) == ApplyUpdateStep(d) /\ UNCHANGED hostVars

-----------------------------------------------------------------------------
(* App::apply_error *)

(* an apply_error that leaves the indicator as it was *)
apply_error_keep(prev_error, msg) == prev_error

(* the last-error indicator after apply_error(msg) *)
apply_error(prev_error, msg) == Some(msg)

ApplyErrorStep(msg) ==
    /\ last_error' = apply_error(last_error, msg)
    /\ last_op' = "apply_error" /\ emitted' = << >> /\ returned' = None
    /\ g_prev_prox' = g_prox_alert /\ g_prev_watch' = g_watch_alert
    /\ UNCHANGED << g_prox_alert, g_watch_alert >>
    /\ UNCHANGED << data, raw_data, last_update, last_swap, g_prev_swap, rateVars,
                    trackVars >>
    /\ UNCHANGED << now, cfgVars, notifyVars, watchVars, routeVars, routeHist >>

ApplyError(msg) == ApplyErrorStep(msg) /\ UNCHANGED hostVars

-----------------------------------------------------------------------------
(* App::maybe_swap_snapshot, called by the host loop with the wall clock;  *)
(* `returned` tells whether it published                                   *)

AlertsUntouched ==
    /\ g_prev_prox' = g_prox_alert /\ g_prev_watch' = g_watch_alert
    /\ UNCHANGED << g_prox_alert, g_watch_alert >>

(* a cadence test that publishes on every call *)
swap_due_always(interval, last, nowt) == TRUE

(* whether maybe_swap_snapshot publishes, smoothing being on *)
swap_due(interval, last, nowt) ==
    IF interval = 0 THEN TRUE
    ELSE IF last = None THEN TRUE
    ELSE LET d == DurationMs(nowt, Unwrap(last))
         IN  d /= None /\ Unwrap(d) >= interval

(* what maybe_swap_snapshot does to the App once it is known whether the   *)
(* displayed snapshot is replaced                                          *)
MaybeSwapSnapshotBody(publish) ==
    /\ data' = IF publish THEN swap_snapshot(raw_data, data, smooth_merge) ELSE data
    /\ last_swap' = IF publish THEN Some(now) ELSE last_swap
    /\ g_prev_swap' = last_swap
    /\ last_op' = "maybe_swap_snapshot" /\ emitted' = << >>
    /\ AlertsUntouched
    /\ UNCHANGED << raw_data, last_update, last_error, rateVars, trackVars >>
    /\ UNCHANGED << now, cfgVars, notifyVars, watchVars, routeVars, routeHist >>

(* `returned` records whether the snapshot was replaced *)
MaybeSwapSnapshotStep ==
    \E publish \in {smooth_mode /\ swap_due(ui_interval, last_swap, now)} :
        /\ MaybeSwapSnapshotBody(publish)
        /\ returned' = Some(publish)

MaybeSwapSnapshot == MaybeSwapSnapshotStep /\ UNCHANGED hostVars

-----------------------------------------------------------------------------
(* App::save_watchlist and the watchlist editor.  `outcome` is what        *)
(* storage::save_watchlist returns ("ok" or "err"); the cursor is 0-based. *)

UiNote(kind, label, at) == Note(kind, label, << >>, << >>, 0, at)
UiEmit == [stream |-> "ui", key |-> << >>, rule |-> << >>]

(* the notification save_watchlist pushes *)
save_watchlist_note(path, outcome, at) ==
    IF path = None THEN UiNote("WATCHLIST no file path", << >>, at)
    ELSE IF outcome = "ok" THEN UiNote("WATCHLIST saved", << >>, at)
    ELSE UiNote("WATCHLIST ERR", << >>, at)

save_watchlist(notes, path, outcome, at) ==
    Append(notes, save_watchlist_note(path, outcome, at))

EditorFrame ==
    /\ g_prev_prox' = g_prox_alert /\ g_prev_watch' = g_watch_alert
    /\ UNCHANGED << g_prox_alert, g_watch_alert >>
    /\ UNCHANGED << now, cfgVars, snapVars, notified_recent, watch_notified_recent,
                    routeVars, hostVars, routeHist >>

SaveWatchlist(outcome) ==
    /\ notifications' = save_watchlist(notifications, watchlist_path, outcome, now)
    /\ Len(notifications') <= MaxNotes
    /\ last_op' = "save_watchlist" /\ emitted' = << UiEmit >> /\ returned' = None
    /\ UNCHANGED watchVars
    /\ EditorFrame

(* `target` is the aircraft the selected table row resolves to: None when  *)
(* nothing is selected or the row is outside the visible list; `created`   *)
(* is whether storage::ensure_watchlist_file had to write the template     *)
AddWatchlistFromSelected(target, created, outcome) ==
    LET notes1 == IF watchlist_path /= None /\ created
                  THEN Append(notifications,
                              UiNote("WATCHLIST template created", << >>, now))
                  ELSE notifications
        em1 == IF watchlist_path /= None /\ created THEN << UiEmit >> ELSE << >>
        made == IF target = None THEN None
                ELSE make_watchlist_entry(data.aircraft[Unwrap(target)])
        exists == made /= None /\
                  \E i \in 1..Len(watchlist) :
                      watchlist_entry_key(watchlist[i]) = watchlist_entry_key(Unwrap(made))
    IN  /\ watchlist_enabled' = TRUE
        /\ IF made = None
           THEN /\ notifications' = notes1 /\ emitted' = em1
                /\ returned' = Some(FALSE)
                /\ UNCHANGED << watchlist, watchlist_cursor >>
           ELSE IF exists
           THEN /\ notifications' =
                       Append(notes1, UiNote("WATCHLIST already exists", << >>, now))
                /\ emitted' = Append(em1, UiEmit)
                /\ returned' = Some(FALSE)
                /\ UNCHANGED << watchlist, watchlist_cursor >>
           ELSE LET entry == Unwrap(made)
                    label == IF IsSome(entry.label) /\ Trim(Unwrap(entry.label)) /= << >>
                             THEN Unwrap(entry.label) ELSE entry_id(entry)
                IN  /\ watchlist' = Append(watchlist, entry)
                    /\ watchlist_cursor' = Len(watchlist)
                    /\ notifications' =
                           Append(save_watchlist(notes1, watchlist_path, outcome, now),
                                  UiNote("WATCHLIST added", label, now))
                    /\ emitted' = em1 \o << UiEmit, UiEmit >>
                    /\ returned' = Some(TRUE)
        /\ Len(notifications') <= MaxNotes
        /\ Len(watchlist') <= MaxRules
        /\ last_op' = "add_watchlist_from_selected"
        /\ EditorFrame

ToggleWatchlistEnabledSelected(outcome) ==
    /\ IF watchlist_cursor < Len(watchlist)
       THEN /\ watchlist' = [watchlist EXCEPT ![watchlist_cursor + 1].enabled =
                                 Some(~is_enabled(watchlist[watchlist_cursor + 1]))]
            /\ notifications' = save_watchlist(notifications, watchlist_path, outcome, now)
            /\ emitted' = << UiEmit >> /\ returned' = Some(TRUE)
       ELSE /\ UNCHANGED << watchlist, notifications >>
            /\ emitted' = << >> /\ returned' = Some(FALSE)
    /\ Len(notifications') <= MaxNotes
    /\ last_op' = "toggle_watchlist_enabled_selected"
    /\ UNCHANGED << watchlist_enabled, watchlist_cursor >>
    /\ EditorFrame

ToggleWatchlistNotifySelected(outcome) ==
    /\ IF watchlist_cursor < Len(watchlist)
       THEN /\ watchlist' = [watchlist EXCEPT ![watchlist_cursor + 1].notify =
                                 Some(~notify_enabled(watchlist[watchlist_cursor + 1]))]
            /\ notifications' = save_watchlist(notifications, watchlist_path, outcome, now)
            /\ emitted' = << UiEmit >> /\ returned' = Some(TRUE)
       ELSE /\ UNCHANGED << watchlist, notifications >>
            /\ emitted' = << >> /\ returned' = Some(FALSE)
    /\ Len(notifications') <= MaxNotes
    /\ last_op' = "toggle_watchlist_notify_selected"
    /\ UNCHANGED << watchlist_enabled, watchlist_cursor >>
    /\ EditorFrame

(* Vec::remove(index), index 0-based *)
VecRemove(list, index) ==
    [i \in 1..(Len(list) - 1) |-> IF i <= index THEN list[i] ELSE list[i + 1]]

DeleteWatchlistSelected(outcome) ==
    /\ IF watchlist = << >>
       THEN /\ UNCHANGED << watchlist, watchlist_cursor, notifications >>
            /\ emitted' = << >> /\ returned' = Some(FALSE)
       ELSE LET cur1 == IF watchlist_cursor >= Len(watchlist)
                        THEN Len(watchlist) - 1 ELSE watchlist_cursor
                rest == VecRemove(watchlist, cur1)
            IN  /\ watchlist' = rest
                /\ watchlist_cursor' = IF cur1 >= Len(rest) /\ rest /= << >>
                                       THEN Len(rest) - 1 ELSE cur1
                /\ notifications' =
                       save_watchlist(notifications, watchlist_path, outcome, now)
                /\ emitted' = << UiEmit >> /\ returned' = Some(TRUE)
    /\ Len(notifications') <= MaxNotes
    /\ last_op' = "delete_watchlist_selected"
    /\ UNCHANGED watchlist_enabled
    /\ EditorFrame

NextWatchlistItem ==
    /\ watchlist /= << >>
    /\ watchlist_cursor' = (watchlist_cursor + 1) % Len(watchlist)
    /\ last_op' = "next_watchlist_item" /\ emitted' = << >> /\ returned' = None
    /\ UNCHANGED << watchlist_enabled, watchlist, notifications >>
    /\ EditorFrame

-----------------------------------------------------------------------------
(* The route engine: App::route_refresh_due, mark_route_poll, apply_routes, *)
(* set_route_error, collect_route_requests, each called with the wall clock *)

RouteFrame ==
    /\ AlertsUntouched
    /\ UNCHANGED << now, cfgVars, snapVars, notifyVars, watchVars >>

RouteRefreshDueStep ==
    /\ route_backoff_until' = route_refresh_due_until(route_backoff_until, now)
    /\ returned' = Some(route_refresh_due(route_backoff_until, route_refresh,
                                          route_last_poll, now))
    /\ last_op' = "route_refresh_due" /\ emitted' = << >>
    /\ UNCHANGED << route_last_poll, route_cache, route_last_request,
                    route_backoff_attempts, route_error >>
    /\ UNCHANGED routeHist
    /\ RouteFrame

RouteRefreshDue == RouteRefreshDueStep /\ UNCHANGED hostVars

MarkRoutePoll ==
    /\ route_last_poll' = Some(now)
    /\ last_op' = "mark_route_poll" /\ emitted' = << >> /\ returned' = None
    /\ UNCHANGED << route_cache, route_last_request, route_backoff_until,
                    route_backoff_attempts, route_error >>
    /\ UNCHANGED routeHist
    /\ RouteFrame
    /\ UNCHANGED hostVars

ApplyRoutesStep(results) ==
    \E r \in {apply_routes(route_cache, results, now, route_backoff_until,
                           route_backoff_attempts)} :
        /\ route_cache' = r.cache
        /\ route_error' = r.error
        /\ route_backoff_until' = r.until
        /\ route_backoff_attempts' = r.attempts
        /\ last_op' = "apply_routes" /\ emitted' = << >> /\ returned' = None
        /\ g_backoffs' = << >>
        /\ UNCHANGED << route_last_poll, route_last_request >>
        /\ UNCHANGED << g_issued, g_deadline >>
        /\ RouteFrame

ApplyRoutes(results) == ApplyRoutesStep(results) /\ UNCHANGED hostVars

LastTwo(hist) == IF Len(hist) > 2 THEN SubSeq(hist, Len(hist) - 1, Len(hist)) ELSE hist

(* m is a message of the route worker: its text, and, as the worker built   *)
(* it, whether it reports a rate limit and the retry-after seconds it names *)
SetRouteErrorStep(m) ==
    \E f \in {note_route_failure(route_backoff_attempts, route_backoff_until,
                                 m.text, now)} :
        /\ f.attempts <= MaxAttempts
        /\ route_error' = Some(<< m.text, now >>)
        /\ route_backoff_attempts' = f.attempts
        /\ route_backoff_until' = f.until
        /\ last_op' = "set_route_error" /\ emitted' = << >>
        /\ returned' = Some(m)
        /\ g_backoffs' = IF f.limited
                         THEN LastTwo(Append(g_backoffs,
                                             [n |-> f.attempts, hint |-> m.hint,
                                              backoff |-> f.backoff, at |-> now]))
                         ELSE g_backoffs
        /\ g_deadline' = IF f.limited THEN Max(g_deadline, Unwrap(f.until))
                         ELSE g_deadline
        /\ UNCHANGED << route_last_poll, route_cache, route_last_request >>
        /\ UNCHANGED g_issued
        /\ RouteFrame

SetRouteError(m) == SetRouteErrorStep(m) /\ UNCHANGED hostVars

(* the issue history after a call that returned `requests` at time nowt *)
RECURSIVE issued_after(_, _, _)
issued_after(hist, requests, nowt) ==
    IF requests = << >> THEN hist
    ELSE LET key == normalize_callsign(Head(requests).callsign)
             before == IF key \in DOMAIN hist THEN hist[key] ELSE << >>
         IN  issued_after(MapInsert(hist, key, LastTwo(Append(before, nowt))),
                          Tail(requests), nowt)

CollectRouteRequests(indices) ==
    \E r \in {collect_route_requests(route_enabled, indices, data.aircraft,
                                     route_cache, route_last_request, route_ttl,
                                     route_refresh, route_batch, now)} :
        /\ route_last_request' = r.last_request
        /\ returned' = Some([requests |-> r.requests, indices |-> indices])
        /\ last_op' = "collect_route_requests" /\ emitted' = << >>
        /\ g_issued' = issued_after(g_issued, r.requests, now)
        /\ UNCHANGED << route_last_poll, route_cache, route_backoff_until,
                        route_backoff_attempts, route_error >>
        /\ UNCHANGED << g_backoffs, g_deadline >>
        /\ RouteFrame
        /\ UNCHANGED hostVars

-----------------------------------------------------------------------------
(* runtime.rs: run_app, the part of one loop iteration that serves the      *)
(* route worker, and routes.rs: the worker.  pc = "drain": the loop is      *)
(* draining its channels; pc = "dispatch": it is at the route dispatch.     *)

RouteResultsMsg(results) == [kind |-> "Results", results |-> results, error |-> << >>]
RouteErrorMsg(m) == [kind |-> "Error", results |-> << >>, error |-> m]

HostRecvSnapshot(d) ==
    /\ pc = "drain"
    /\ ApplyUpdate(d)

HostRecvRouteResults ==
    /\ pc = "drain"
    /\ res_q /= << >>
    /\ Head(res_q).kind = "Results"
    /\ ApplyRoutesStep(Head(res_q).results)
    /\ res_q' = Tail(res_q)
    /\ UNCHANGED << pc, req_q, feedVars >>

HostRecvRouteError ==
    /\ pc = "drain"
    /\ res_q /= << >>
    /\ Head(res_q).kind = "Error"
    /\ SetRouteErrorStep(Head(res_q).error)
    /\ res_q' = Tail(res_q)
    /\ UNCHANGED << pc, req_q, feedVars >>

(* the route channel is empty: the loop goes on to position `next` *)
HostDrainedTo(next) ==
    /\ pc = "drain"
    /\ res_q = << >>
    /\ pc' = next
    /\ last_op' = "drained" /\ emitted' = << >> /\ returned' = None
    /\ UNCHANGED << req_q, res_q, feedVars >>
    /\ UNCHANGED << routeVars, routeHist >>
    /\ RouteFrame

HostDrained == HostDrainedTo("dispatch")

(* `indices` is what App::visible_indices returned for the displayed data *)
HostDispatchStep(indices, next) ==
    /\ pc = "dispatch"
    /\ pc' = next
    /\ last_op' = "dispatch" /\ emitted' = << >>
    /\ IF ~route_enabled
       THEN /\ returned' = None
            /\ UNCHANGED << routeVars, routeHist, req_q >>
       ELSE /\ route_backoff_until' = route_refresh_due_until(route_backoff_until, now)
            /\ UNCHANGED << route_cache, route_backoff_attempts, route_error,
                            g_backoffs, g_deadline >>
            /\ IF ~route_refresh_due(route_backoff_until, route_refresh,
                                     route_last_poll, now)
               THEN /\ returned' = None
                    /\ UNCHANGED << route_last_poll, route_last_request, req_q,
                                    g_issued >>
               ELSE IF route_tar1090
               THEN /\ req_q' = Append(req_q, << >>)
                    /\ route_last_poll' = Some(now)
                    /\ returned' = Some([requests |-> << >>, indices |-> << >>])
                    /\ UNCHANGED << route_last_request, g_issued >>
               ELSE \E r \in {collect_route_requests(route_enabled, indices,
                                  data.aircraft, route_cache, route_last_request,
                                  route_ttl, route_refresh, route_batch, now)} :
                        /\ route_last_request' = r.last_request
                        /\ returned' = Some([requests |-> r.requests,
                                              indices |-> indices])
                        /\ g_issued' = issued_after(g_issued, r.requests, now)
                        /\ IF r.requests /= << >>
                           THEN /\ req_q' = Append(req_q, r.requests)
                                /\ route_last_poll' = Some(now)
                           ELSE UNCHANGED << req_q, route_last_poll >>
    /\ Len(req_q') <= MaxQueue
    /\ UNCHANGED res_q
    /\ RouteFrame

HostDispatch(indices) == HostDispatchStep(indices, "drain") /\ UNCHANGED feedVars

(* the results a fetch that succeeds returns for a batch *)
RouteResult(callsign, origin, destination, route) ==
    [callsign |-> callsign, origin |-> origin, destination |-> destination,
     route |-> route]

S_KSFO == << "K", "S", "F", "O" >>
S_KJFK == << "K", "J", "F", "K" >>

fetched_results(batch) ==
    [i \in 1..Len(batch) |->
        RouteResult(batch[i].callsign, Some(S_KSFO), Some(S_KJFK), None)]

(* let _ = tx.send(message): the message is queued while run_app holds    *)
(* the receiver, and is lost, the error ignored, once it is dropped        *)
route_send(q, open, message) == IF open THEN Append(q, message) ELSE q

(* one turn of the worker's loop: take a batch, fetch, send the outcome:   *)
(* the results when the fetch is `ok`, else the error message m            *)
WorkerFetch(ok, m) ==
    /\ worker_pc = "recv"
    /\ req_q /= << >>
    /\ req_q' = Tail(req_q)
    /\ IF ~route_tar1090 /\ Head(req_q) = << >>
       THEN UNCHANGED res_q
       ELSE res_q' = route_send(res_q, feed_open,
                        IF ok
                        THEN RouteResultsMsg(fetched_results(Head(req_q)))
                        ELSE RouteErrorMsg(m))
    /\ Len(res_q') <= MaxQueue
    /\ last_op' = "worker_fetch" /\ emitted' = << >> /\ returned' = None
    /\ UNCHANGED << pc, feedVars >>
    /\ UNCHANGED << routeVars, routeHist >>
    /\ RouteFrame

-----------------------------------------------------------------------------
(* Inputs *)

Str_AB1 == << "A", "B", "1" >>
Str_ab1_sp == << " ", "a", "b", "1" >>
Str_CD2 == << "C", "D", "2" >>
Str_EF3 == << "E", "F", "3" >>
Str_UAL1_sp == << "U", "A", "L", "1", " " >>
Str_dal2 == << "d", "a", "l", "2" >>
Str_N1 == << "N", "1" >>

SiteHere == [lat |-> 0, lon |-> 0]

(* Aircraft around a site at latitude 0 with a 10.0 mi radius: two records *)
(* of one hex key (one of them an overpass), one keyed by callsign at the  *)
(* radius exactly, one beyond it, one without a position, one without key  *)
AcNear == [AircraftDefault EXCEPT !.hex = Some(Str_AB1), !.flight = Some(Str_UAL1_sp),
                                  !.r = Some(Str_N1), !.lat = Some(50), !.lon = Some(0)]
AcOver == [AircraftDefault EXCEPT !.hex = Some(Str_ab1_sp), !.lat = Some(-3),
                                  !.lon = Some(0)]
AcEdge == [AircraftDefault EXCEPT !.flight = Some(Str_dal2), !.lat = Some(100),
                                  !.lon = Some(0)]
AcFar == [AircraftDefault EXCEPT !.hex = Some(Str_CD2), !.lat = Some(101),
                                 !.lon = Some(0)]
AcNoPos == [AircraftDefault EXCEPT !.hex = Some(Str_EF3), !.lat = Some(10)]
AcNoKey == [AircraftDefault EXCEPT !.lat = Some(10), !.lon = Some(0)]

ProxAircraftLists ==
    { << >>, << AcNear >>, << AcNear, AcOver >>, << AcEdge, AcFar >>,
      << AcNoPos, AcNoKey, AcOver >> }

ProxInputs(t) == {[now |-> Some(t), messages |-> None, aircraft |-> a] : a \in ProxAircraftLists}

ProxTicks == {5, 10}

RouteConfigOff ==
    /\ route_enabled = FALSE /\ route_tar1090 = FALSE
    /\ route_ttl = 3600 /\ route_refresh = 15 /\ route_batch = 20

InitProx ==
    /\ InitState
    /\ EngineConfigSmall
    /\ site = Some(SiteHere) /\ demo_mode = FALSE
    /\ notify_radius_mi = 100 /\ overpass_mi = 5 /\ notify_cooldown = 10
    /\ watchlist_path = None /\ smooth_mode = FALSE /\ smooth_merge = FALSE
    /\ watchlist_enabled = FALSE /\ watchlist = << >>
    /\ RouteConfigOff

NextProx ==
    \/ \E d \in ProxTicks : Tick(d)
    \/ \E d \in ProxInputs(now) : ApplyUpdate(d)

SpecProx == InitProx /\ [][NextProx]_vars

-----------------------------------------------------------------------------
(* The route throttle under failures and successes *)

Msg_HTTP_500 ==
    << "R", "o", "u", "t", "e", " ", "H", "T", "T", "P", " ", "5", "0", "0", " ",
       "I", "n", "t", "e", "r", "n", "a", "l", " ", "S", "e", "r", "v", "e", "r", " ",
       "E", "r", "r", "o", "r" >>
Msg_HTTP_429 ==
    << "R", "o", "u", "t", "e", " ", "H", "T", "T", "P", " ", "4", "2", "9", " ",
       "T", "o", "o", " ", "M", "a", "n", "y", " ",
       "R", "e", "q", "u", "e", "s", "t", "s" >>
Msg_retry_3 ==
    << " ", "(", "r", "e", "t", "r", "y", "-", "a", "f", "t", "e", "r", "=", "3", "s", ")" >>
Msg_retry_400 ==
    << " ", "(", "r", "e", "t", "r", "y", "-", "a", "f", "t", "e", "r", "=",
       "4", "0", "0", "s", ")" >>

(* what routes.rs sends: a plain HTTP error, a 429 without a Retry-After    *)
(* (fetch_tar1090), a 429 naming the seconds to wait (fetch_routeset)        *)
ErrPlain == [text |-> Msg_HTTP_500, limited |-> FALSE, hint |-> 0]
ErrLimited == [text |-> Msg_HTTP_429, limited |-> TRUE, hint |-> 0]
ErrLimited3 == [text |-> Msg_HTTP_429 \o Msg_retry_3, limited |-> TRUE, hint |-> 3]
ErrLimited400 == [text |-> Msg_HTTP_429 \o Msg_retry_400, limited |-> TRUE, hint |-> 400]

(* a connection error that names a port: the digits 429 with no blank on  *)
(* either side                                                             *)
Msg_connect_4290 ==
    << "R", "o", "u", "t", "e", " ", "e", "r", "r", "o", "r", ":", " ",
       "h", "o", "s", "t", ":", "4", "2", "9", "0", "/" >>
ErrPort == [text |-> Msg_connect_4290, limited |-> FALSE, hint |-> 0]

RouteErrorMessages == {ErrPlain, ErrLimited, ErrLimited3, ErrLimited400, ErrPort}

RouteResultLists ==
    { << >>, << RouteResult(Str_UAL1_sp, Some(S_KSFO), Some(S_KJFK), None) >> }

BackoffTicks == {10}

InitBackoff ==
    /\ InitState
    /\ EngineConfigSmall
    /\ site = None /\ demo_mode = FALSE
    /\ notify_radius_mi = 100 /\ overpass_mi = 5 /\ notify_cooldown = 10
    /\ watchlist_path = None /\ smooth_mode = FALSE /\ smooth_merge = FALSE
    /\ watchlist_enabled = FALSE /\ watchlist = << >>
    /\ route_enabled = TRUE /\ route_tar1090 = FALSE
    /\ route_ttl = 6 /\ route_refresh = 3 /\ route_batch = 2

NextBackoff ==
    \/ \E d \in BackoffTicks : Tick(d)
    \/ \E m \in RouteErrorMessages : SetRouteError(m)
    \/ \E results \in RouteResultLists : ApplyRoutes(results)

SpecBackoff == InitBackoff /\ [][NextBackoff]_vars

-----------------------------------------------------------------------------
(* The route cache under lookups: snapshots, results, collect calls *)

Str_ual1_sp == << " ", "u", "a", "l", "1" >>
Str_blank == << " ", " " >>

AcUal == [AircraftDefault EXCEPT !.hex = Some(Str_AB1), !.flight = Some(Str_UAL1_sp),
                                 !.lat = Some(50), !.lon = Some(0)]
AcUalLower == [AircraftDefault EXCEPT !.hex = Some(Str_CD2), !.flight = Some(Str_ual1_sp)]
AcDal == [AircraftDefault EXCEPT !.hex = Some(Str_EF3), !.flight = Some(Str_dal2)]
AcBlank == [AircraftDefault EXCEPT !.hex = Some(Str_N1), !.flight = Some(Str_blank)]
AcNoFlight == [AircraftDefault EXCEPT !.hex = Some(Str_dal2)]

RouteAircraftLists ==
    { << AcUal, AcUalLower, AcDal, AcBlank >>, << AcNoFlight, AcDal >> }

(* the feed of these snapshots stamps them all with second 1 *)
RouteInputs == {[now |-> Some(1), messages |-> None, aircraft |-> a] : a \in RouteAircraftLists}

(* what App::visible_indices can hand over for the displayed aircraft: the  *)
(* filter keeps any of them and the sort orders them; here all of them in   *)
(* list order or in reverse, any single one, or none (0-based indices)      *)
VisibleIndexLists(aircraft) ==
    LET n == Len(aircraft)
    IN  {[i \in 1..n |-> i - 1], [i \in 1..n |-> n - i], << >>}
            \cup {<< i >> : i \in 0..(n - 1)}

CollectResultLists ==
    { << RouteResult(Str_ual1_sp, Some(S_KSFO), Some(S_KJFK), None) >>,
      << RouteResult(Str_dal2, None, None, Some(S_KSFO)),
         RouteResult(Str_UAL1_sp, Some(S_KSFO), Some(S_KJFK), None) >> }

CollectConfigs ==
    { [ttl |-> 16, refresh |-> 8, batch |-> 2],
      [ttl |-> 0, refresh |-> 0, batch |-> 1] }

CollectTicks == {8}

InitCollect ==
    /\ InitState
    /\ EngineConfigSmall
    /\ site = None /\ demo_mode = FALSE
    /\ notify_radius_mi = 100 /\ overpass_mi = 5 /\ notify_cooldown = 10
    /\ watchlist_path = None /\ smooth_mode = FALSE /\ smooth_merge = FALSE
    /\ watchlist_enabled = FALSE /\ watchlist = << >>
    /\ route_enabled = TRUE /\ route_tar1090 = FALSE
    /\ \E c \in CollectConfigs :
           route_ttl = c.ttl /\ route_refresh = c.refresh /\ route_batch = c.batch

NextCollect ==
    \/ \E d \in CollectTicks : Tick(d)
    \/ \E d \in RouteInputs : ApplyUpdate(d)
    \/ \E results \in CollectResultLists : ApplyRoutes(results)
    \/ \E indices \in VisibleIndexLists(data.aircraft) : CollectRouteRequests(indices)

SpecCollect == InitCollect /\ [][NextCollect]_vars

-----------------------------------------------------------------------------
(* The route throttle as the engine's callers can drive it: the due check, *)
(* the poll mark and collect calls in any order, around failures           *)

ThrottleInputs == {[now |-> Some(1), messages |-> None, aircraft |-> << AcNoFlight, AcDal >>]}

ThrottleErrors == {ErrLimited}

ThrottleTicks == {8}

InitThrottle ==
    /\ InitState
    /\ EngineConfigSmall
    /\ site = None /\ demo_mode = FALSE
    /\ notify_radius_mi = 100 /\ overpass_mi = 5 /\ notify_cooldown = 10
    /\ watchlist_path = None /\ smooth_mode = FALSE /\ smooth_merge = FALSE
    /\ watchlist_enabled = FALSE /\ watchlist = << >>
    /\ route_enabled \in BOOLEAN /\ route_tar1090 = FALSE
    /\ route_ttl = 16 /\ route_refresh = 8 /\ route_batch = 2

NextThrottle ==
    \/ \E d \in ThrottleTicks : Tick(d)
    \/ \E d \in ThrottleInputs : ApplyUpdate(d)
    \/ \E m \in ThrottleErrors : SetRouteError(m)
    \/ RouteRefreshDue
    \/ MarkRoutePoll
    \/ \E indices \in VisibleIndexLists(data.aircraft) : CollectRouteRequests(indices)

SpecThrottle == InitThrottle /\ [][NextThrottle]_vars

-----------------------------------------------------------------------------
(* The host loop with the route worker *)

HostInputs == {[now |-> Some(1), messages |-> None, aircraft |-> << AcDal >>]}

(* the errors a fetch can end with: fetch_tar1090 reports the bare status, *)
(* fetch_routeset a 429 with the seconds of its Retry-After                *)
HostErrors == IF route_tar1090 THEN {ErrPlain, ErrLimited} ELSE {ErrPlain, ErrLimited3}

HostTicks == {8}

InitHost ==
    /\ InitState
    /\ EngineConfigSmall
    /\ site = None /\ demo_mode = FALSE
    /\ notify_radius_mi = 100 /\ overpass_mi = 5 /\ notify_cooldown = 10
    /\ watchlist_path = None /\ smooth_mode = FALSE /\ smooth_merge = FALSE
    /\ watchlist_enabled = FALSE /\ watchlist = << >>
    /\ route_enabled = TRUE /\ route_tar1090 \in BOOLEAN
    /\ route_ttl = 16 /\ route_refresh = 8 /\ route_batch = 1

NextHost ==
    \/ \E d \in HostTicks : Tick(d)
    \/ \E d \in HostInputs : HostRecvSnapshot(d)
    \/ HostRecvRouteResults
    \/ HostRecvRouteError
    \/ HostDrained
    \/ \E indices \in VisibleIndexLists(data.aircraft) : HostDispatch(indices)
    \/ \E ok \in BOOLEAN : \E m \in HostErrors : WorkerFetch(ok, m)

SpecHost == InitHost /\ [][NextHost]_vars

-----------------------------------------------------------------------------
(* The notification list under snapshots and watchlist edits *)

S_path == << "w", ".", "t", "o", "m", "l" >>

RingInputs == {[now |-> Some(1), messages |-> None, aircraft |-> << AcNear >>]}

(* the watchlist file holds one rule, on the hex of AcNear *)
RingRule ==
    [WatchEntryDefault EXCEPT !.match_type = S_hex, !.value = Str_AB1,
                              !.label = Some(Str_N1)]

(* `a` is pressed with no table row selected *)
RingTargets == {None}

InitRing ==
    /\ InitState
    /\ EngineConfigSmall
    /\ site = Some(SiteHere) /\ demo_mode = FALSE
    /\ notify_radius_mi = 100 /\ overpass_mi = 5 /\ notify_cooldown = 10
    /\ watchlist_path = Some(S_path) /\ smooth_mode = FALSE /\ smooth_merge = FALSE
    /\ watchlist_enabled = FALSE /\ watchlist = << RingRule >>
    /\ RouteConfigOff

NextRing ==
    \/ \E d \in RingInputs : ApplyUpdate(d)
    \/ SaveWatchlist("ok")
    \/ \E target \in RingTargets : AddWatchlistFromSelected(target, FALSE, "ok")
    \/ ToggleWatchlistEnabledSelected("ok")
    \/ ToggleWatchlistNotifySelected("ok")
    \/ DeleteWatchlistSelected("ok")
    \/ NextWatchlistItem

SpecRing == InitRing /\ [][NextRing]_vars

-----------------------------------------------------------------------------
(* The watchlist, as loaded from its file, over snapshots *)

Str_ual == << "u", "a", "l" >>
Str_HEX_sp == << " ", "H", "E", "X", " " >>

(* rules of the watchlist file: on the hex of AcNear with priority 1; on    *)
(* its callsign prefix with priority 5 and notify off; on its hex again     *)
(* with priority 5, match type and value to be normalized, an explicit id;  *)
(* on its registration with priority 9 but disabled; on its registration    *)
(* with every default; on its hex with the lowest priority there is         *)
WR_hex1 ==
    [WatchEntryDefault EXCEPT !.match_type = S_hex, !.value = Str_AB1,
                              !.priority = Some(1), !.label = Some(<< "A" >>)]
WR_cs5_silent ==
    [WatchEntryDefault EXCEPT !.match_type = S_callsign, !.value = Str_ual,
                              !.mode = Some(S_prefix), !.priority = Some(5),
                              !.notify = Some(FALSE), !.label = Some(<< "B" >>)]
WR_hex5 ==
    [WatchEntryDefault EXCEPT !.match_type = Str_HEX_sp, !.value = Str_ab1_sp,
                              !.priority = Some(5), !.enabled = Some(TRUE),
                              !.notify = Some(TRUE), !.id = Some(<< "C" >>)]
WR_reg9_off ==
    [WatchEntryDefault EXCEPT !.match_type = S_reg, !.value = Str_N1,
                              !.priority = Some(9), !.enabled = Some(FALSE),
                              !.label = Some(<< "D" >>)]
WR_reg0 ==
    [WatchEntryDefault EXCEPT !.match_type = S_registration, !.value = Str_N1]
WR_hexmin ==
    [WatchEntryDefault EXCEPT !.match_type = S_icao, !.value = Str_AB1,
                              !.priority = Some(I64_MIN), !.label = Some(<< "E" >>)]

WatchLists ==
    { << >>,
      << WR_hex1, WR_hex5 >>,
      << WR_hex1, WR_cs5_silent, WR_hex5 >>,
      << WR_hex5, WR_cs5_silent >>,
      << WR_reg9_off, WR_reg0, WR_hex1 >>,
      << WR_hexmin >>,
      << WR_hexmin, WR_reg0 >>,
      << WR_cs5_silent, WR_hex1 >> }

(* an aircraft with a registration only: it has no identity key *)
AcAnon == [AircraftDefault EXCEPT !.r = Some(Str_N1)]

WatchAircraftLists ==
    { << AcNear >>, << AcNear, AcOver >>, << AcFar, AcAnon >> }

WatchInputs(t) == {[now |-> Some(t), messages |-> None, aircraft |-> a] : a \in WatchAircraftLists}

WatchTicks == {10}

InitWatch ==
    /\ InitState
    /\ EngineConfigSmall
    /\ site = None /\ demo_mode = FALSE
    /\ notify_radius_mi = 100 /\ overpass_mi = 5 /\ notify_cooldown = 10
    /\ watchlist_path = None /\ smooth_mode = FALSE /\ smooth_merge = FALSE
    /\ watchlist_enabled \in BOOLEAN /\ watchlist \in WatchLists
    /\ RouteConfigOff

NextWatch ==
    \/ \E d \in WatchTicks : Tick(d)
    \/ \E d \in WatchInputs(now) : ApplyUpdate(d)

SpecWatch == InitWatch /\ [][NextWatch]_vars

-----------------------------------------------------------------------------
(* The global rate estimator under snapshots with and without a counter    *)

NoSiteNoWatch ==
    /\ site = None /\ demo_mode = FALSE
    /\ notify_radius_mi = 100 /\ overpass_mi = 5 /\ notify_cooldown = 10
    /\ watchlist_path = None /\ watchlist_enabled = FALSE /\ watchlist = << >>

RateCounters == {900, 1000, 1050}

RateInputs(t) ==
    {[now |-> Some(t), messages |-> m, aircraft |-> << >>] :
        m \in {None} \cup {Some(c) : c \in RateCounters}}

(* the default window of 300 ms and one that spans several polls *)
RateWindows == {300, 4000}

RateTicks == {4}

InitRate ==
    /\ InitState
    /\ NoSiteNoWatch
    /\ RouteConfigOff
    /\ smooth_mode = FALSE /\ smooth_merge = FALSE
    /\ trail_len = 1 /\ ui_interval = 100
    /\ msg_rate_window \in RateWindows /\ msg_rate_min_secs = 250

NextRate ==
    \/ \E d \in RateTicks : Tick(d)
    \/ \E d \in RateInputs(now) : ApplyUpdate(d)

SpecRate == InitRate /\ [][NextRate]_vars

-----------------------------------------------------------------------------
(* Trends and trails of one airframe seen at three positions of the grid,  *)
(* of a callsign-only aircraft and of a record without identity            *)

TrackAt0 == [AircraftDefault EXCEPT !.hex = Some(Str_AB1), !.lat = Some(0),
                !.lon = Some(0), !.alt_baro = Some(100), !.gs = Some(10)]
TrackNear == [AircraftDefault EXCEPT !.hex = Some(Str_AB1), !.lat = Some(1),
                !.lon = Some(1), !.alt_baro = Some(100), !.gs = Some(20)]
TrackEdge == [AircraftDefault EXCEPT !.hex = Some(Str_ab1_sp), !.lat = Some(2),
                !.lon = Some(0), !.alt_baro = Some(50)]
TrackNoLat == [AircraftDefault EXCEPT !.hex = Some(Str_AB1), !.lon = Some(0),
                !.gs = Some(10)]
TrackFlt0 == [AircraftDefault EXCEPT !.flight = Some(Str_UAL1_sp), !.lat = Some(0),
                !.lon = Some(0), !.alt_baro = Some(100), !.gs = Some(10)]
TrackFlt5 == [AircraftDefault EXCEPT !.flight = Some(Str_UAL1_sp), !.lat = Some(0),
                !.lon = Some(5), !.alt_baro = Some(200), !.gs = Some(10)]
TrackAnon == [AircraftDefault EXCEPT !.lat = Some(0), !.lon = Some(5),
                !.alt_baro = Some(100)]

TrackAircraftLists ==
    { << TrackAt0 >>, << TrackNear >>, << TrackEdge >>, << TrackNoLat >>,
      << TrackFlt0 >>, << TrackFlt5 >>, << TrackAnon >>, << TrackAt0, TrackEdge >> }

TrackInputs(t) ==
    {[now |-> Some(t), messages |-> None, aircraft |-> a] : a \in TrackAircraftLists}

TrackTrailLens == {1, 2}

TrackTicks == {8}

(* what the fetch worker reports when a poll fails *)
Msg_timeout == << "t", "i", "m", "e", "o", "u", "t" >>
FeedErrors == {Msg_timeout}

InitTrack ==
    /\ InitState
    /\ NoSiteNoWatch
    /\ RouteConfigOff
    /\ smooth_mode = FALSE /\ smooth_merge = FALSE
    /\ trail_len \in TrackTrailLens /\ ui_interval = 100
    /\ msg_rate_window = 300 /\ msg_rate_min_secs = 250

NextTrack ==
    \/ \E d \in TrackTicks : Tick(d)
    \/ \E d \in TrackInputs(now) : ApplyUpdate(d)
    \/ \E msg \in FeedErrors : ApplyError(msg)

SpecTrack == InitTrack /\ [][NextTrack]_vars

-----------------------------------------------------------------------------
(* Smoothing: snapshots of one airframe with fields filled, missing, blank *)
(* and padded, of a callsign-only aircraft and of a record without         *)
(* identity, published at once or by maybe_swap_snapshot                   *)

MergeFull == [AircraftDefault EXCEPT !.hex = Some(Str_AB1), !.flight = Some(Str_UAL1_sp),
                !.r = Some(Str_N1), !.alt_baro = Some(100)]
MergeBare == [AircraftDefault EXCEPT !.hex = Some(Str_ab1_sp), !.r = Some(Str_blank)]
MergeNew == [AircraftDefault EXCEPT !.hex = Some(Str_AB1), !.r = Some(Str_CD2),
                !.alt_baro = Some(50)]
MergeFlt == [AircraftDefault EXCEPT !.flight = Some(Str_UAL1_sp)]
MergeFltFull == [AircraftDefault EXCEPT !.flight = Some(Str_ual1_sp), !.r = Some(Str_N1)]
MergeAnon == [AircraftDefault EXCEPT !.t = Some(Str_EF3)]

MergeAircraftLists ==
    { << MergeFull >>, << MergeBare >>, << MergeNew >>, << MergeFlt >>,
      << MergeFltFull >>, << MergeAnon, MergeBare >>, << MergeFull, MergeNew >> }

SmoothInputs(t) ==
    {[now |-> Some(t), messages |-> None, aircraft |-> a] : a \in MergeAircraftLists}
        \cup {[now |-> None, messages |-> None, aircraft |-> << MergeBare >>]}

(* no smoothing interval (ui_fps = 0), the default of 10 frames per second *)
(* and the longest, one frame per second                                   *)
UiIntervals == {0, 100, 1000}

SmoothHorizon == 1

InitSmooth ==
    /\ InitState
    /\ NoSiteNoWatch
    /\ RouteConfigOff
    /\ smooth_mode \in BOOLEAN /\ smooth_merge \in BOOLEAN
    /\ trail_len = 1 /\ ui_interval \in UiIntervals
    /\ ~smooth_mode => ui_interval = 100
    /\ msg_rate_window = 300 /\ msg_rate_min_secs = 250

NextSmooth ==
    \/ now < SmoothHorizon /\ Tick(1)
    \/ \E d \in SmoothInputs(now) : ApplyUpdate(d)
    \/ MaybeSwapSnapshot

SpecSmooth == InitSmooth /\ [][NextSmooth]_vars

-----------------------------------------------------------------------------
(* Claims *)

(* how many notifications of `stream` the last step pushed for `key` *)
EmittedFor(stream, key) ==
    Cardinality({i \in 1..Len(emitted) :
                    emitted[i].stream = stream /\ emitted[i].key = key})

(* the aircraft of the last ingested snapshot that lie within the alert    *)
(* radius of the site and have an identity key                             *)
InRadius(ac) ==
    /\ site_of /= None /\ ac.lat /= None /\ ac.lon /= None
    /\ distance_mi(Unwrap(site_of).lat, Unwrap(site_of).lon,
                   Unwrap(ac.lat), Unwrap(ac.lon)) <= notify_radius_mi
    /\ notify_key(ac) /= None

InRadiusKeys ==
    {Unwrap(notify_key(raw_data.aircraft[i])) :
        i \in {j \in 1..Len(raw_data.aircraft) : InRadius(raw_data.aircraft[j])}}

(* C1: proximity cooldown.  After every apply_update, each key within the  *)
(* radius got exactly one proximity notification if it was never notified  *)
(* before or at least the cooldown has elapsed since its last one, and     *)
(* none otherwise, however many records of the snapshot carry the key.     *)
C1_ProximityCooldown ==
    last_op = "apply_update" =>
        \A key \in InRadiusKeys :
            EmittedFor("prox", key) =
                IF key \notin DOMAIN g_prev_prox
                   \/ Unwrap(last_update) - g_prev_prox[key] >= notify_cooldown
                THEN 1 ELSE 0

(* C1 witness: a snapshot with two records of one key, both in the radius, *)
(* arriving exactly one cooldown after the key's last notification, has    *)
(* pushed one notification for it.                                         *)
C1_Witness ==
    /\ last_op = "apply_update"
    /\ raw_data.aircraft = << AcNear, AcOver >>
    /\ Unwrap(notify_key(AcNear)) \in DOMAIN g_prev_prox
    /\ Unwrap(last_update) - g_prev_prox[Unwrap(notify_key(AcNear))] = notify_cooldown
    /\ EmittedFor("prox", Unwrap(notify_key(AcNear))) = 1

-----------------------------------------------------------------------------
(* the rate-limit failure the last set_route_error noted, and the one before *)
LastFailure == g_backoffs[Len(g_backoffs)]
NotedRateLimit == last_op = "set_route_error" /\ Unwrap(returned).limited

(* C5: route backoff growth and reset.  Each rate-limit failure raises the *)
(* failure counter by one, the first after a success (or after start)      *)
(* counting 1 and backing off max(2 s, hint).  Of two consecutive failures *)
(* without a retry-after hint the second backoff is strictly larger up to  *)
(* the eighth failure and equal to the previous one (256 s) from the ninth *)
(* on; with hints the backoff is never below the hint-free step of its     *)
(* count.  A failure that is no rate limit leaves counter and deadline     *)
(* alone.  apply_routes leaves the counter at zero and no deadline.        *)
C5_BackoffGrowthAndReset ==
    /\ NotedRateLimit =>
           /\ g_backoffs /= << >>
           /\ route_backoff_attempts = LastFailure.n
           /\ Len(g_backoffs) = 1 =>
                  /\ LastFailure.n = 1
                  /\ LastFailure.backoff = Max(2, LastFailure.hint)
           /\ Len(g_backoffs) = 2 =>
                  /\ g_backoffs[2].n = g_backoffs[1].n + 1
                  /\ (g_backoffs[1].hint = 0 /\ g_backoffs[2].hint = 0) =>
                         IF g_backoffs[2].n <= 8
                         THEN g_backoffs[2].backoff > g_backoffs[1].backoff
                         ELSE /\ g_backoffs[2].backoff = g_backoffs[1].backoff
                              /\ g_backoffs[2].backoff = 256
                  /\ g_backoffs[2].hint = 0 =>
                         g_backoffs[2].backoff <= 256
    /\ (last_op = "set_route_error" /\ ~Unwrap(returned).limited) =>
           /\ route_backoff_attempts =
                  IF g_backoffs = << >> THEN 0 ELSE LastFailure.n
    /\ last_op = "apply_routes" =>
           /\ route_backoff_attempts = 0
           /\ route_backoff_until = None
           /\ g_backoffs = << >>

(* C5 witness: the ninth consecutive rate-limit failure without hints has  *)
(* set the same backoff as the eighth.                                     *)
C5_Witness ==
    /\ NotedRateLimit
    /\ Len(g_backoffs) = 2
    /\ g_backoffs[2].n = 9
    /\ g_backoffs[1].hint = 0 /\ g_backoffs[2].hint = 0
    /\ g_backoffs[2].backoff = g_backoffs[1].backoff

(* C5 as stated: of two consecutive rate-limit failures the second backoff *)
(* is strictly larger than the first, or equal to it once the ceiling of   *)
(* the backoff is reached.                                                 *)
C5_AsStated ==
    (NotedRateLimit /\ Len(g_backoffs) = 2) =>
        /\ g_backoffs[2].n = g_backoffs[1].n + 1
        /\ \/ g_backoffs[2].backoff > g_backoffs[1].backoff
           \/ /\ g_backoffs[2].backoff = g_backoffs[1].backoff
              /\ g_backoffs[2].backoff >= 256

(* C6: route backoff formula.  On the n-th consecutive rate-limit failure  *)
(* with server hint h the deadline is now + max(h, 2^(min(n-1,7)+1)), so   *)
(* the hint-free steps are 2, 4, ..., 256 s, and the backoff exceeds 300 s *)
(* only when the hint does.                                                *)
C6_BackoffFormula ==
    NotedRateLimit =>
        LET n == LastFailure.n
            h == LastFailure.hint
            step == 2 ^ (Min(n - 1, 7) + 1)
        IN  /\ n >= 1
            /\ LastFailure.backoff = Max(h, step)
            /\ route_backoff_until = Some(now + Max(h, step))
            /\ LastFailure.backoff > 300 => h = LastFailure.backoff

(* C6 witness: a second consecutive failure hinting 3 s backs off 4 s, and *)
(* not at time zero.                                                       *)
C6_Witness ==
    /\ NotedRateLimit
    /\ now > 0
    /\ LastFailure.n = 2 /\ LastFailure.hint = 3
    /\ route_backoff_until = Some(now + 4)

(* C6 as stated: the deadline is now + max(h, 2^(min(n-1,7))) and the      *)
(* backoff never exceeds 300 s.                                            *)
C6_AsStated ==
    NotedRateLimit =>
        /\ route_backoff_until =
               Some(now + Max(LastFailure.hint, 2 ^ Min(LastFailure.n - 1, 7)))
        /\ LastFailure.backoff <= 300

-----------------------------------------------------------------------------
(* what the last collect_route_requests call returned and was given *)
Collected == last_op = "collect_route_requests"
Requests == Unwrap(returned).requests
Indices == Unwrap(returned).indices
VisibleAircraft == {data.aircraft[Indices[i] + 1] : i \in 1..Len(Indices)}
RequestKey(r) == ToAsciiLowercase(Trim(r.callsign))
RequestedKeys == {RequestKey(Requests[i]) : i \in 1..Len(Requests)}
HasCallsign(ac) == ac.flight /= None /\ Trim(Unwrap(ac.flight)) /= << >>
CacheAge(key) == now - route_cache[key].fetched_at

(* C7: batch bound and eligibility.  Every call returns at most            *)
(* min(route_batch, 10) requests, so at most the configured batch limit;   *)
(* each request carries the trimmed non-blank callsign of a visible        *)
(* aircraft whose key has no cache entry, or an entry at least as old as   *)
(* the TTL, or the TTL is zero; a key whose entry is younger than a        *)
(* non-zero TTL is never requested; and while the batch is not full every  *)
(* visible aircraft that is eligible in this way is requested unless its   *)
(* key was requested less than a non-zero refresh interval ago.            *)
C7_BatchBoundAndEligibility ==
    Collected =>
        /\ Len(Requests) <= route_batch
        /\ Len(Requests) <= 10
        /\ \A i \in 1..Len(Requests) :
               /\ Requests[i].callsign /= << >>
               /\ \E ac \in VisibleAircraft :
                      HasCallsign(ac) /\ Trim(Unwrap(ac.flight)) = Requests[i].callsign
               /\ LET key == RequestKey(Requests[i])
                  IN  \/ key \notin DOMAIN route_cache
                      \/ route_ttl = 0
                      \/ CacheAge(key) >= route_ttl
        /\ \A key \in DOMAIN route_cache :
               (route_ttl > 0 /\ CacheAge(key) < route_ttl) => key \notin RequestedKeys
        /\ (Len(Requests) < route_batch /\ Len(Requests) < 10) =>
               \A ac \in {a \in VisibleAircraft : HasCallsign(a)} :
                   LET key == ToAsciiLowercase(Trim(Unwrap(ac.flight)))
                   IN  (\/ key \notin DOMAIN route_cache
                        \/ route_ttl = 0
                        \/ CacheAge(key) >= route_ttl) =>
                           \/ key \in RequestedKeys
                           \/ /\ route_refresh > 0
                              /\ key \in DOMAIN route_last_request
                              /\ now - route_last_request[key] < route_refresh

(* C7 witness: a call has returned a request for a key whose cache entry   *)
(* is exactly as old as the (non-zero) TTL.                                *)
C7_Witness ==
    /\ Collected
    /\ route_ttl > 0
    /\ \E key \in RequestedKeys :
           key \in DOMAIN route_cache /\ CacheAge(key) = route_ttl

(* C7 as stated: at most the batch limit, every request for a key without  *)
(* cache entry or with one whose age exceeds the TTL, and no request for a *)
(* key whose entry is not older than the TTL.                              *)
C7_AsStated ==
    Collected =>
        /\ Len(Requests) <= route_batch
        /\ \A key \in RequestedKeys :
               key \notin DOMAIN route_cache \/ CacheAge(key) > route_ttl
        /\ \A key \in DOMAIN route_cache :
               CacheAge(key) <= route_ttl => key \notin RequestedKeys

-----------------------------------------------------------------------------
BackoffInEffect == route_backoff_until /= None /\ now < Unwrap(route_backoff_until)

(* C4: what skips everything.  With route lookups disabled a call of       *)
(* collect_route_requests returns an empty list and no issue time is ever  *)
(* recorded.  A backoff deadline in effect is honoured by the due check:   *)
(* route_refresh_due returns false while now is before the deadline and    *)
(* leaves the deadline set, and it clears a deadline that has passed.      *)
C4_SkipsWhenDisabledDueCheckHoldsBackoff ==
    /\ ~route_enabled =>
           /\ route_last_request = << >>
           /\ Collected => Requests = << >>
    /\ last_op = "route_refresh_due" =>
           /\ BackoffInEffect => returned = Some(FALSE)
           /\ ~BackoffInEffect => route_backoff_until = None

(* C4 witness: with lookups disabled, a call given a visible aircraft with *)
(* a callsign and no cache entry has returned nothing.                     *)
C4_Witness ==
    /\ ~route_enabled
    /\ Collected
    /\ AcDal \in VisibleAircraft
    /\ Requests = << >>
    /\ route_cache = << >>

(* C4 as stated: a call made while lookups are disabled, or while a        *)
(* backoff deadline is set and now is before it, returns an empty list.    *)
C4_AsStated ==
    (Collected /\ (~route_enabled \/ BackoffInEffect)) => Requests = << >>

-----------------------------------------------------------------------------
(* C3: the backoff deadline and the host loop.  No request batch is handed *)
(* to the route worker while the engine's backoff deadline is set and in   *)
(* the future; and a deadline that is set changes only when a success is   *)
(* applied (cleared), when a later failure replaces it, or at a dispatch   *)
(* at or after the deadline (cleared).                                     *)
C3_NoBatchWhileDeadlineStands ==
    [][/\ Len(req_q') > Len(req_q) => ~BackoffInEffect
       /\ (route_backoff_until /= None /\ route_backoff_until' /= route_backoff_until) =>
              \/ last_op' = "apply_routes" /\ route_backoff_until' = None
              \/ last_op' = "set_route_error" /\ route_backoff_until' /= None
              \/ /\ last_op' = "dispatch" /\ route_backoff_until' = None
                 /\ now >= Unwrap(route_backoff_until)]_vars

(* C3 witness: a dispatch that was due by the refresh interval has handed  *)
(* nothing over, the deadline being in the future.                         *)
C3_Witness ==
    /\ last_op = "dispatch"
    /\ returned = None
    /\ BackoffInEffect
    /\ route_last_poll /= None
    /\ now - Unwrap(route_last_poll) >= route_refresh
    /\ req_q = << >>

(* C3 as stated: no batch is handed to the worker before the latest        *)
(* deadline a rate-limit failure has set.                                  *)
C3_AsStated ==
    [][Len(req_q') > Len(req_q) => now >= g_deadline]_vars

-----------------------------------------------------------------------------
(* C2 as stated: the notification list never holds more than 10 entries.   *)
C2_AsStated ==
    Len(notifications) <= NOTIFY_RING_CAP

-----------------------------------------------------------------------------
(* the aircraft the watchlist is probed with *)
WatchProbes == {AcNear, AcOver, AcFar, AcAnon, AcEdge}

(* the positions of the enabled rules that match ac *)
EnabledMatches(ac) ==
    {i \in 1..Len(watchlist) :
        is_enabled(watchlist[i])
        /\ watch_entry_matches(watchlist[i], ac, route_for(ac))}

(* among them the one of highest priority, the earliest of these *)
TopRule(ac) ==
    LET c == EnabledMatches(ac)
    IN  IF ~watchlist_enabled \/ c = {} THEN None
        ELSE Some(watchlist[CHOOSE i \in c : \A j \in c :
                      \/ priority(watchlist[i]) > priority(watchlist[j])
                      \/ priority(watchlist[i]) = priority(watchlist[j]) /\ i <= j])

(* C9: watchlist priority resolution.  watch_entry_for returns, among the  *)
(* enabled rules that match the aircraft, the one of highest priority, the *)
(* earliest in the list among equals; none exactly when the watchlist is   *)
(* disabled or no enabled rule matches; never a rule with enabled = false; *)
(* and is_watchlisted is true exactly when it returns a rule.              *)
C9_PriorityResolution ==
    \A ac \in WatchProbes :
        /\ watch_entry_for(ac) = TopRule(ac)
        /\ (watch_entry_for(ac) = None) = (~watchlist_enabled \/ EnabledMatches(ac) = {})
        /\ watch_entry_for(ac) /= None => is_enabled(Unwrap(watch_entry_for(ac)))
        /\ is_watchlisted(ac) = (TopRule(ac) /= None)

(* C9 witness: of three enabled matching rules with priorities 1, 5, 5 the *)
(* first of priority 5 is returned, after a snapshot with the aircraft.    *)
C9_Witness ==
    /\ last_op = "apply_update"
    /\ watchlist_enabled
    /\ watchlist = << WR_hex1, WR_cs5_silent, WR_hex5 >>
    /\ AcNear \in {raw_data.aircraft[i] : i \in 1..Len(raw_data.aircraft)}
    /\ watch_entry_for(AcNear) = Some(WR_cs5_silent)

(* the records of the last snapshot, the identity keys among them, the     *)
(* rule identifiers of the watchlist                                       *)
SnapshotRecords == {raw_data.aircraft[i] : i \in 1..Len(raw_data.aircraft)}
KeyedRecords == {ac \in SnapshotRecords : notify_key(ac) /= None}
SnapshotKeys == {Unwrap(notify_key(ac)) : ac \in KeyedRecords}
RuleIds == {entry_id(watchlist[i]) : i \in 1..Len(watchlist)}

WatchEmitted(rule, key) ==
    Cardinality({i \in 1..Len(emitted) :
                    /\ emitted[i].stream = "watch"
                    /\ emitted[i].rule = rule /\ emitted[i].key = key})

WatchDue(rule, key) ==
    \/ << rule, key >> \notin DOMAIN g_prev_watch
    \/ Unwrap(last_update) - g_prev_watch[<< rule, key >>] >= notify_cooldown

(* C10: watch notifications per (rule, aircraft).  In an apply_update pass *)
(* one watch notification is emitted for a rule identifier and an identity *)
(* key exactly when some record of the snapshot with that key has this     *)
(* rule as its watch_entry_for result (the highest-priority enabled match),*)
(* the rule has notify = true, and the pair was never notified or at least *)
(* the cooldown ago; no other watch notification is emitted.  So a rule    *)
(* with notify = false never emits, and neither does a notify rule that    *)
(* matches but is not the rule watch_entry_for returns.                    *)
C10_WatchNotificationsPerBestRule ==
    last_op = "apply_update" =>
        /\ \A key \in SnapshotKeys : \A id \in RuleIds :
               WatchEmitted(id, key) =
                   IF /\ \E ac \in KeyedRecords :
                             /\ Unwrap(notify_key(ac)) = key
                             /\ TopRule(ac) /= None
                             /\ entry_id(Unwrap(TopRule(ac))) = id
                             /\ notify_enabled(Unwrap(TopRule(ac)))
                      /\ WatchDue(id, key)
                   THEN 1 ELSE 0
        /\ \A i \in 1..Len(emitted) :
               emitted[i].stream = "watch" =>
                   emitted[i].rule \in RuleIds /\ emitted[i].key \in SnapshotKeys

(* C10 witness: an aircraft matched by two enabled notify rules, of        *)
(* priorities 1 and 5, has been notified under the second and not under    *)
(* the first.                                                              *)
C10_Witness ==
    /\ last_op = "apply_update"
    /\ watchlist_enabled
    /\ watchlist = << WR_hex1, WR_hex5 >>
    /\ raw_data.aircraft = << AcNear >>
    /\ WatchEmitted(entry_id(WR_hex5), Unwrap(notify_key(AcNear))) = 1
    /\ WatchEmitted(entry_id(WR_hex1), Unwrap(notify_key(AcNear))) = 0

(* C10 as stated: with the watchlist on, every enabled rule with           *)
(* notify = true that matches a record with an identity key emits for it   *)
(* unless the pair was notified less than the cooldown ago, and a rule     *)
(* with notify = false never emits.                                        *)
C10_AsStated ==
    (last_op = "apply_update" /\ watchlist_enabled) =>
        \A i \in 1..Len(watchlist) : \A ac \in KeyedRecords :
            LET id == entry_id(watchlist[i])
                key == Unwrap(notify_key(ac))
            IN  /\ (/\ is_enabled(watchlist[i]) /\ notify_enabled(watchlist[i])
                    /\ watch_entry_matches(watchlist[i], ac, route_for(ac))
                    /\ WatchDue(id, key)) => WatchEmitted(id, key) >= 1
                /\ ~notify_enabled(watchlist[i]) => WatchEmitted(id, key) = 0

-----------------------------------------------------------------------------
(* The global rate estimator.  The last step was an apply_update whose     *)
(* snapshot carried a message counter; g_prev_rate is the estimator as the *)
(* update found it.                                                        *)
RateUpdate == last_op = "apply_update" /\ raw_data.messages /= None
RateMsgs == Unwrap(raw_data.messages)
RateSeen == RateUpdate /\ g_prev_rate.last_msg_total /= None
CounterWentBack == RateSeen /\ RateMsgs < Unwrap(g_prev_rate.last_msg_total)
CounterAdvanced == RateSeen /\ RateMsgs > Unwrap(g_prev_rate.last_msg_total)
CounterUnchanged == RateSeen /\ RateMsgs = Unwrap(g_prev_rate.last_msg_total)

(* the advance of the counter and the time since the estimator's last      *)
(* sample, in milliseconds                                                 *)
RateDelta == RateMsgs - Unwrap(g_prev_rate.last_msg_total)
RateElapsedMs ==
    UnwrapOr(DurationMs(Unwrap(last_update), Unwrap(g_prev_rate.last_msg_time)), 0)

RatesNonNegative ==
    \A r \in {msg_rate_ema, msg_rate, msg_rate_display} : r /= None => Unwrap(r) >= 0

(* C11: counter-reset safety.  When the counter of a snapshot is lower     *)
(* than the last seen one, the sample window holds the new sample alone,   *)
(* the EMA and the displayed rate are unset and no new rate is computed;   *)
(* no rate is ever negative; and when the estimator holds one sample and   *)
(* no EMA (as it does after a reset), the rate of the next advancing       *)
(* snapshot is computed from these two samples alone: the 0.7/0.3 blend of *)
(* the advance over the elapsed time floored at half the divisor floor and *)
(* at the divisor floor, hence at most the advance over the elapsed time.  *)
C11_CounterResetSafety ==
    /\ RatesNonNegative
    /\ CounterWentBack =>
           /\ msg_samples = << [t |-> Unwrap(last_update), m |-> RateMsgs] >>
           /\ msg_rate_ema = None
           /\ msg_rate_display = None
           /\ msg_rate = g_prev_rate.msg_rate
           /\ last_msg_total = Some(RateMsgs)
    /\ (/\ CounterAdvanced
        /\ g_prev_rate.msg_rate_ema = None
        /\ Len(g_prev_rate.msg_samples) = 1) =>
           IF msg_rate_ema = None
           THEN /\ RateElapsedMs > msg_rate_window
                /\ Len(msg_samples) = 1
                /\ msg_rate = g_prev_rate.msg_rate
           ELSE LET short == rate_of(RateDelta,
                                     Max(RateElapsedMs, msg_rate_min_secs \div 2))
                    win == rate_of(RateDelta, Max(RateElapsedMs, msg_rate_min_secs))
                IN  /\ msg_samples = Append(g_prev_rate.msg_samples,
                                            [t |-> Unwrap(last_update), m |-> RateMsgs])
                    /\ msg_rate_ema = Some((7 * short + 3 * win) \div 10)
                    /\ msg_rate = msg_rate_ema
                    /\ Unwrap(msg_rate_ema) <= short
                    /\ RateElapsedMs > 0 =>
                           Unwrap(msg_rate_ema) <= rate_of(RateDelta, RateElapsedMs)

(* C11 witness: the counter went back while an estimate was established    *)
(* (the estimator the update found had no EMA but still the rate computed  *)
(* before the reset), and the next advancing snapshot has seeded a new     *)
(* EMA.                                                                    *)
C11_Witness ==
    /\ CounterAdvanced
    /\ g_prev_rate.msg_rate_ema = None
    /\ g_prev_rate.msg_rate /= None
    /\ Len(g_prev_rate.msg_samples) = 1
    /\ msg_rate_ema /= None
    /\ msg_rate_ema /= g_prev_rate.msg_rate

(* C12 as stated: with no established estimate, the second of two          *)
(* consecutive snapshots whose times differ by dt > 0 and whose counter    *)
(* rises by delta leaves the global message rate at delta / dt, whatever   *)
(* the rate window.                                                        *)
C12_AsStated ==
    [][(/\ last_op' = "apply_update"
        /\ raw_data.messages /= None /\ raw_data'.messages /= None
        /\ last_update /= None
        /\ msg_rate = None /\ msg_rate_ema = None
        /\ Unwrap(raw_data'.messages) > Unwrap(raw_data.messages)
        /\ Unwrap(last_update') > Unwrap(last_update)) =>
            msg_rate' = Some(rate_of(Unwrap(raw_data'.messages)
                                         - Unwrap(raw_data.messages),
                                     (Unwrap(last_update') - Unwrap(last_update))
                                         * 1000))]_vars

(* C13: decay monotonicity.  An apply_update with an unchanged counter     *)
(* never unsets the EMA and never makes it negative; when it comes more    *)
(* than the hold duration max(window, 2 s) after the last sample it leaves *)
(* a positive EMA strictly smaller than it was and the rate and displayed  *)
(* rate equal to it; within the hold it leaves the estimator as it was.    *)
C13_DecayMonotonicity ==
    (CounterUnchanged /\ g_prev_rate.msg_rate_ema /= None) =>
        /\ msg_rate_ema /= None
        /\ Unwrap(msg_rate_ema) >= 0
        /\ IF RateElapsedMs > Max(msg_rate_window, RATE_HOLD_MIN_MS)
           THEN /\ Unwrap(msg_rate_ema) <= Unwrap(g_prev_rate.msg_rate_ema)
                /\ Unwrap(g_prev_rate.msg_rate_ema) > 0 =>
                       Unwrap(msg_rate_ema) < Unwrap(g_prev_rate.msg_rate_ema)
                /\ msg_rate = msg_rate_ema
                /\ msg_rate_display = msg_rate_ema
           ELSE rate_state = g_prev_rate

(* C13 witness: a second decay in a row.  The update found an EMA already  *)
(* decayed (the last sample is older than the hold, and the estimator's    *)
(* window rate would be zero), and has left a positive, smaller one.       *)
C13_Witness ==
    /\ CounterUnchanged
    /\ g_prev_rate.msg_rate_ema /= None
    /\ RateElapsedMs >= 2 * Max(msg_rate_window, RATE_HOLD_MIN_MS)
    /\ Unwrap(msg_rate_ema) > 0
    /\ Unwrap(msg_rate_ema) < Unwrap(g_prev_rate.msg_rate_ema)

-----------------------------------------------------------------------------
(* Trails and trends.  g_prev_track holds both as the last apply_update    *)
(* found them; a hex key is the normalized hex id of a record.             *)
TrackRecords == {raw_data.aircraft[i] : i \in 1..Len(raw_data.aircraft)}
HexRecords(k) ==
    {i \in 1..Len(raw_data.aircraft) :
        /\ raw_data.aircraft[i].hex /= None
        /\ normalize_hex(Unwrap(raw_data.aircraft[i].hex)) = k}
PositionedRecords(k) ==
    {i \in HexRecords(k) :
        raw_data.aircraft[i].lat /= None /\ raw_data.aircraft[i].lon /= None}
SnapshotHexKeys ==
    {normalize_hex(Unwrap(ac.hex)) : ac \in {r \in TrackRecords : r.hex /= None}}
TrackKeys ==
    SnapshotHexKeys \cup DOMAIN trail_points \cup DOMAIN g_prev_track.trail_points
        \cup DOMAIN trend_cache \cup DOMAIN g_prev_track.last_metrics
OldTrail(k) ==
    IF k \in DOMAIN g_prev_track.trail_points
    THEN g_prev_track.trail_points[k] ELSE << >>
NewTrail(k) == IF k \in DOMAIN trail_points THEN trail_points[k] ELSE << >>
TrailMax == Max(trail_len, 1)

(* the record's position is less than the threshold away from the point on *)
(* both axes                                                               *)
WithinEps(point, ac) ==
    /\ Abs(point.lat - Unwrap(ac.lat)) < TRAIL_EPS
    /\ Abs(point.lon - Unwrap(ac.lon)) < TRAIL_EPS

(* the one positioned record of key k appends a point to the old trail *)
AppendsPoint(k, i) ==
    \/ OldTrail(k) = << >>
    \/ ~WithinEps(OldTrail(k)[Len(OldTrail(k))], raw_data.aircraft[i])

PointOf(ac) ==
    [lat |-> Unwrap(ac.lat), lon |-> Unwrap(ac.lon), at |-> Unwrap(last_update)]

(* C14: trail cap.  Every trail has at least one point and at most the     *)
(* configured maximum (at least 1).  When an update appends the point of   *)
(* a record to a trail, the trail is the old trail followed by the new     *)
(* point, less its oldest points beyond the maximum: a trail that was full *)
(* stays at exactly the maximum, having lost its oldest point and kept the *)
(* others in order.                                                        *)
C14_TrailCap ==
    /\ \A k \in DOMAIN trail_points :
           Len(trail_points[k]) >= 1 /\ Len(trail_points[k]) <= TrailMax
    /\ last_op = "apply_update" =>
           \A k \in SnapshotHexKeys : \A i \in PositionedRecords(k) :
               (PositionedRecords(k) = {i} /\ AppendsPoint(k, i)) =>
                   LET all == Append(OldTrail(k), PointOf(raw_data.aircraft[i]))
                       n == Min(Len(all), TrailMax)
                   IN  /\ NewTrail(k) = SubSeq(all, Len(all) - n + 1, Len(all))
                       /\ Len(OldTrail(k)) = TrailMax =>
                              /\ Len(NewTrail(k)) = TrailMax
                              /\ NewTrail(k) =
                                     Append(Tail(OldTrail(k)),
                                            PointOf(raw_data.aircraft[i]))

(* C14 witness: a full trail of two points has taken a third: the oldest   *)
(* is gone, the second is now first and the new point is last.             *)
C14_Witness ==
    /\ last_op = "apply_update"
    /\ trail_len = 2
    /\ raw_data.aircraft = << TrackAt0 >>
    /\ Len(OldTrail(normalize_hex(Str_AB1))) = 2
    /\ OldTrail(normalize_hex(Str_AB1))[2].lat = 2
    /\ NewTrail(normalize_hex(Str_AB1))
           = << OldTrail(normalize_hex(Str_AB1))[2], PointOf(TrackAt0) >>

(* C15: trail frame conditions.  An update leaves the trail of a key       *)
(* unchanged (and a key without a trail without one) when no record of the *)
(* key has both a latitude and a longitude, be it that the aircraft is not *)
(* in the snapshot, and when its one positioned record is less than the    *)
(* threshold away from the last stored point on both axes; trail_for       *)
(* returns the stored trail.  A positioned record that is the first of its *)
(* key, or the threshold or more away on at least one axis, appends        *)
(* exactly one point, the record's position at the time of the update.     *)
C15_TrailFrame ==
    /\ \A ac \in TrackRecords :
           trail_for(ac) =
               IF ac.hex /= None /\ normalize_hex(Unwrap(ac.hex)) \in DOMAIN trail_points
               THEN Some(NewTrail(normalize_hex(Unwrap(ac.hex)))) ELSE None
    /\ last_op = "apply_update" =>
           \A k \in TrackKeys :
               /\ PositionedRecords(k) = {} =>
                      /\ NewTrail(k) = OldTrail(k)
                      /\ k \in DOMAIN trail_points
                             <=> k \in DOMAIN g_prev_track.trail_points
               /\ \A i \in PositionedRecords(k) :
                      PositionedRecords(k) = {i} =>
                          IF AppendsPoint(k, i)
                          THEN /\ NewTrail(k)[Len(NewTrail(k))]
                                      = PointOf(raw_data.aircraft[i])
                               /\ Len(NewTrail(k)) = Min(Len(OldTrail(k)) + 1, TrailMax)
                               /\ \A j \in 1..(Len(NewTrail(k)) - 1) :
                                      NewTrail(k)[j]
                                          = OldTrail(k)[Len(OldTrail(k))
                                                        - Len(NewTrail(k)) + 1 + j]
                          ELSE NewTrail(k) = OldTrail(k)

(* C15 witness: a record exactly the threshold away on one axis (and at    *)
(* the same longitude) has appended a point to a trail of one point.       *)
C15_Witness ==
    /\ last_op = "apply_update"
    /\ trail_len = 2
    /\ raw_data.aircraft = << TrackEdge >>
    /\ Len(OldTrail(normalize_hex(Str_AB1))) = 1
    /\ OldTrail(normalize_hex(Str_AB1))[1].lat = 0
    /\ OldTrail(normalize_hex(Str_AB1))[1].lon = 0
    /\ NewTrail(normalize_hex(Str_AB1))
           = Append(OldTrail(normalize_hex(Str_AB1)), PointOf(TrackEdge))

(* the direction of a value against the one recorded before *)
TrendDirOf(prev, cur) ==
    IF prev = None \/ cur = None THEN "Unknown"
    ELSE IF Unwrap(cur) > Unwrap(prev) THEN "Up"
    ELSE IF Unwrap(cur) < Unwrap(prev) THEN "Down"
    ELSE "Flat"

OldMetrics(k) ==
    IF k \in DOMAIN g_prev_track.last_metrics
    THEN g_prev_track.last_metrics[k] ELSE MetricsDefault

(* C16: trend classification.  After an update, the altitude and the speed *)
(* trend of a key with one record in the snapshot are Up, Down or Flat as  *)
(* the record's value is greater than, less than or equal to the value     *)
(* stored for the key by the last snapshot that held it, and Unknown when  *)
(* either is missing (a key never seen has none stored); the stored values *)
(* are then those of the record, missing ones included.  With several      *)
(* records of one key the stored values are those of the last.  Trend and  *)
(* stored values of a key with no record in the snapshot stay as they are. *)
C16_TrendClassification ==
    last_op = "apply_update" =>
        \A k \in TrackKeys :
            /\ HexRecords(k) = {} =>
                   /\ k \in DOMAIN trend_cache <=> k \in DOMAIN g_prev_track.trend_cache
                   /\ k \in DOMAIN trend_cache =>
                          /\ trend_cache[k] = g_prev_track.trend_cache[k]
                          /\ last_metrics[k] = g_prev_track.last_metrics[k]
            /\ \A i \in HexRecords(k) :
                   LET ac == raw_data.aircraft[i]
                   IN  /\ HexRecords(k) = {i} =>
                              /\ trend_cache[k].alt
                                     = TrendDirOf(OldMetrics(k).alt_baro, ac.alt_baro)
                              /\ trend_cache[k].gs = TrendDirOf(OldMetrics(k).gs, ac.gs)
                              /\ trend_for(ac) = trend_cache[k]
                       /\ (\A j \in HexRecords(k) : j <= i) =>
                              last_metrics[k] = [alt_baro |-> ac.alt_baro, gs |-> ac.gs]

(* C16 witness: the snapshot before had no altitude for the key, this one  *)
(* has: the altitude trend is Unknown again, the speed trend is Flat, and  *)
(* the altitude is stored.                                                 *)
C16_Witness ==
    /\ last_op = "apply_update"
    /\ raw_data.aircraft = << TrackAt0 >>
    /\ normalize_hex(Str_AB1) \in DOMAIN g_prev_track.last_metrics
    /\ OldMetrics(normalize_hex(Str_AB1)) = [alt_baro |-> None, gs |-> Some(10)]
    /\ g_prev_track.trend_cache[normalize_hex(Str_AB1)].alt = "Unknown"
    /\ trend_cache[normalize_hex(Str_AB1)] = [alt |-> "Unknown", gs |-> "Flat"]
    /\ last_metrics[normalize_hex(Str_AB1)].alt_baro = Some(100)

(* C17 as stated: after an update, every record with an identity key (the  *)
(* hex id, else the callsign) has a trend stored and, when it has a        *)
(* position, a trail that trail_for returns and that ends near it; a       *)
(* record with neither has none.                                           *)
C17_AsStated ==
    last_op = "apply_update" =>
        \A ac \in TrackRecords :
            IF notify_key(ac) /= None
            THEN /\ \E k \in DOMAIN trend_cache : trend_for(ac) = trend_cache[k]
                 /\ (ac.lat /= None /\ ac.lon /= None) =>
                        /\ trail_for(ac) /= None
                        /\ WithinEps(Unwrap(trail_for(ac))[Len(Unwrap(trail_for(ac)))], ac)
            ELSE trail_for(ac) = None /\ trend_for(ac) = TrendUnknown

-----------------------------------------------------------------------------
(* Publishing the DisplaySnapshot *)

(* the step publishes: an apply_update without smoothing, or a             *)
(* maybe_swap_snapshot that found a publish due                            *)
PublishStep ==
    \/ last_op' = "apply_update" /\ ~smooth_mode
    \/ last_op' = "maybe_swap_snapshot" /\ returned' = Some(TRUE)

(* C18: publish on update.  Without smoothing, apply_update leaves the     *)
(* DisplaySnapshot equal to the snapshot it ingested, merged with the      *)
(* previous DisplaySnapshot when the merge is on, and maybe_swap_snapshot  *)
(* changes nothing; with smoothing, apply_update leaves the                *)
(* DisplaySnapshot as it was, and it changes only in a                     *)
(* maybe_swap_snapshot that publishes, which leaves it equal to the latest *)
(* raw snapshot (merged when the merge is on).                             *)
C18_PublishOnUpdate ==
    [][/\ (last_op' = "apply_update" /\ ~smooth_mode) =>
              data' = IF smooth_merge THEN merge_api_response(raw_data', data)
                      ELSE raw_data'
       /\ (last_op' = "apply_update" /\ smooth_mode) => data' = data
       /\ (last_op' = "maybe_swap_snapshot" /\ ~smooth_mode) =>
              /\ data' = data /\ last_swap' = last_swap
              /\ returned' = Some(FALSE)
       /\ (last_op' = "maybe_swap_snapshot" /\ smooth_mode) =>
              data' = IF returned' /= Some(TRUE) THEN data
                      ELSE IF smooth_merge THEN merge_api_response(raw_data, data)
                      ELSE raw_data
       /\ (smooth_mode /\ data' /= data) =>
              last_op' = "maybe_swap_snapshot" /\ returned' = Some(TRUE)]_vars

(* C18 witness: with smoothing, an apply_update has ingested a snapshot    *)
(* and the DisplaySnapshot still shows the aircraft of an earlier one.     *)
C18_Witness ==
    /\ smooth_mode
    /\ last_op = "apply_update"
    /\ raw_data.aircraft = << MergeNew >>
    /\ data.aircraft = << MergeFull >>

(* C19: publish cadence.  With smoothing, maybe_swap_snapshot publishes    *)
(* exactly when the UI interval is zero, or nothing was published yet, or  *)
(* at least one interval has passed since the last publish; it then        *)
(* records the time of the call as the last publish, and otherwise leaves  *)
(* the record alone.  Two consecutive publishes under a non-zero interval  *)
(* are hence at least one interval apart.                                  *)
C19_PublishCadence ==
    (last_op = "maybe_swap_snapshot" /\ smooth_mode) =>
        /\ returned = Some(\/ ui_interval = 0
                           \/ g_prev_swap = None
                           \/ (now - Unwrap(g_prev_swap)) * 1000 >= ui_interval)
        /\ last_swap = IF Unwrap(returned) THEN Some(now) ELSE g_prev_swap
        /\ (Unwrap(returned) /\ ui_interval > 0 /\ g_prev_swap /= None) =>
               (Unwrap(last_swap) - Unwrap(g_prev_swap)) * 1000 >= ui_interval

(* C19 witness: under an interval of one second a call exactly one second  *)
(* after the last publish has published.                                   *)
C19_Witness ==
    /\ last_op = "maybe_swap_snapshot" /\ smooth_mode
    /\ ui_interval = 1000
    /\ g_prev_swap /= None
    /\ (now - Unwrap(g_prev_swap)) * 1000 = ui_interval
    /\ returned = Some(TRUE)
    /\ last_swap = Some(now)

(* the fields of an aircraft record the model carries *)
StringFields == {"hex", "flight", "r", "t", "own_op", "category"}
NumericFields == {"alt_baro", "gs", "lat", "lon", "messages"}
Blank(o) == o = None \/ Trim(Unwrap(o)) = << >>

(* the records of the previous DisplaySnapshot with the identity key of ac *)
PrevHits(ac, prev) ==
    {j \in 1..Len(prev.aircraft) :
        notify_key(ac) /= None /\ notify_key(prev.aircraft[j]) = notify_key(ac)}
PrevOf(ac, prev) ==
    prev.aircraft[CHOOSE j \in PrevHits(ac, prev) : \A h \in PrevHits(ac, prev) : h <= j]

(* new is raw filled forward from prev; `filled` gives the value a blank   *)
(* string field takes from the previous one                                *)
MergedFrom(new, raw, prev, filled(_, _)) ==
    /\ new.now = IF raw.now = None THEN prev.now ELSE raw.now
    /\ new.messages = IF raw.messages = None THEN prev.messages ELSE raw.messages
    /\ Len(new.aircraft) = Len(raw.aircraft)
    /\ \A i \in 1..Len(raw.aircraft) :
           LET ac == raw.aircraft[i]
               out == new.aircraft[i]
           IN  IF PrevHits(ac, prev) = {} THEN out = ac
               ELSE /\ \A f \in StringFields :
                           out[f] = IF Blank(ac[f]) THEN filled(ac[f], PrevOf(ac, prev)[f])
                                    ELSE ac[f]
                    /\ \A f \in NumericFields :
                           out[f] = IF ac[f] = None THEN PrevOf(ac, prev)[f] ELSE ac[f]

(* the previous value without its surrounding whitespace, unless it is     *)
(* blank or missing too                                                    *)
FilledTrimmed(cur, prev) == IF Blank(prev) THEN cur ELSE Some(Trim(Unwrap(prev)))
FilledAsIs(cur, prev) == prev

(* C20: merge fill-forward.  On a publish with the merge on, a record      *)
(* whose identity key occurs in the previous DisplaySnapshot is filled     *)
(* from the last previous record of that key: a string field that is null  *)
(* or blank takes the previous value with its surrounding whitespace       *)
(* removed, or stays as it is when the previous one is null or blank; a    *)
(* numeric field that is null takes the previous value; every other field  *)
(* keeps the new value.  Records without a matching key (or without a key) *)
(* are unchanged, and of the top-level fields only missing ones are filled. *)
C20_MergeFillForward ==
    [][(PublishStep /\ smooth_merge) =>
           MergedFrom(data', raw_data', data, FilledTrimmed)]_vars

(* C20 witness: the DisplaySnapshot shows for a record with a blank        *)
(* registration, no callsign and no altitude the registration, the         *)
(* callsign without its trailing blank and the altitude of an earlier      *)
(* snapshot, and the record's own hex id.                                  *)
C20_Witness ==
    /\ smooth_merge
    /\ last_op \in {"apply_update", "maybe_swap_snapshot"}
    /\ raw_data.aircraft = << MergeBare >>
    /\ data.aircraft = << [MergeBare EXCEPT !.r = Some(Str_N1),
                                           !.flight = Some(Trim(Str_UAL1_sp)),
                                           !.alt_baro = Some(100)] >>

(* C20 as stated: on a publish with the merge on, every field that is null *)
(* or a blank string in the new snapshot takes the value the previous      *)
(* DisplaySnapshot has for the same key, and every other field keeps the   *)
(* new value.                                                              *)
C20_AsStated ==
    [][(PublishStep /\ smooth_merge) =>
           MergedFrom(data', raw_data', data, FilledAsIs)]_vars

-----------------------------------------------------------------------------
(* C21: transient feed error.  apply_error sets the last-error indicator   *)
(* to its message and leaves every other field of the engine as it was:    *)
(* the DisplaySnapshot, the raw snapshot, the time of the last update and  *)
(* of the last publish, rate, trend and trail state, the recency maps and  *)
(* the notifications, the watchlist and the route state.  Every            *)
(* apply_update leaves the indicator unset.                                *)
C21_TransientFeedError ==
    [][/\ last_op' = "apply_error" =>
              /\ last_error' /= None
              /\ Unwrap(last_error') \in FeedErrors
              /\ UNCHANGED << data, raw_data, last_update, last_swap >>
              /\ UNCHANGED << last_msg_total, last_msg_time, msg_samples,
                              msg_rate_ema, msg_rate, msg_rate_display,
                              aircraft_rates, avg_aircraft_rate >>
              /\ UNCHANGED << last_metrics, trend_cache, trail_points >>
              /\ UNCHANGED << notifyVars, watchVars, routeVars, cfgVars >>
       /\ last_op' = "apply_update" => last_error' = None]_vars

(* C21 witness: an apply_error has set the indicator while the engine     *)
(* shows a snapshot and holds a trail and a trend for its airframe.        *)
C21_Witness ==
    /\ last_op = "apply_error"
    /\ last_error = Some(Msg_timeout)
    /\ data.aircraft = << TrackEdge >>
    /\ last_update /= None
    /\ Len(NewTrail(normalize_hex(Str_AB1))) = 2
    /\ normalize_hex(Str_AB1) \in DOMAIN trend_cache

-----------------------------------------------------------------------------
(* the message names 429, "too many requests" or "rate limit" anywhere,    *)
(* in any case                                                             *)
S_429 == << "4", "2", "9" >>
MentionsRateLimit(text) ==
    \/ Contains(ToAsciiLowercase(text), S_429)
    \/ Contains(ToAsciiLowercase(text), S_too_many_requests)
    \/ Contains(ToAsciiLowercase(text), S_rate_limit)

(* set_route_error took the message for a rate limit or not: it counted a  *)
(* failure and set a deadline in the future, or left both alone            *)
CountedAsRateLimit ==
    /\ route_backoff_attempts' = route_backoff_attempts + 1
    /\ route_backoff_until' /= None
    /\ Unwrap(route_backoff_until') > now
LeftBackoffAlone ==
    UNCHANGED << route_backoff_attempts, route_backoff_until >>

(* the messages of the route worker whose lowercase text holds 429 with a  *)
(* blank before or after it, "too many requests" or "rate limit"           *)
RateLimitTexts ==
    {m.text : m \in {x \in RouteErrorMessages :
        \/ Contains(ToAsciiLowercase(x.text), S_sp_429)
        \/ Contains(ToAsciiLowercase(x.text), S_429_sp)
        \/ Contains(ToAsciiLowercase(x.text), S_too_many_requests)
        \/ Contains(ToAsciiLowercase(x.text), S_rate_limit)}}

(* C22: failures that are no rate limit do not touch the backoff.          *)
(* set_route_error records every message with the time for display.  A     *)
(* message whose lowercase text holds 429 with a blank before or after it, *)
(* "too many requests" or "rate limit" raises the failure counter by one   *)
(* and sets a deadline in the future; any other message leaves the counter *)
(* and the deadline as they were.  Cache, poll time and request times are  *)
(* left alone either way.                                                  *)
C22_PlainFailuresLeaveBackoff ==
    [][last_op' = "set_route_error" =>
           LET m == Unwrap(returned')
           IN  /\ route_error' = Some(<< m.text, now >>)
               /\ UNCHANGED << route_cache, route_last_poll, route_last_request >>
               /\ IF m.text \in RateLimitTexts
                  THEN CountedAsRateLimit
                  ELSE LeftBackoffAlone]_vars

(* C22 witness: a plain HTTP 500 has been recorded for display while the   *)
(* counter and the deadline are still those the last rate-limit failure    *)
(* left, the deadline lying in the future.                                 *)
C22_Witness ==
    /\ last_op = "set_route_error"
    /\ returned = Some(ErrPlain)
    /\ route_error = Some(<< Msg_HTTP_500, now >>)
    /\ g_backoffs /= << >>
    /\ route_backoff_attempts = g_backoffs[Len(g_backoffs)].n
    /\ route_backoff_attempts >= 2
    /\ route_backoff_until = Some(g_backoffs[Len(g_backoffs)].at
                                  + g_backoffs[Len(g_backoffs)].backoff)
    /\ Unwrap(route_backoff_until) > now

(* C22 as stated: a message with no 429, "too many requests" or "rate      *)
(* limit" in it (in any case) leaves the counter and the deadline          *)
(* unchanged, and a message with one of them raises the counter and sets a *)
(* deadline.                                                               *)
C22_AsStated ==
    [][last_op' = "set_route_error" =>
           IF MentionsRateLimit(Unwrap(returned').text)
           THEN CountedAsRateLimit
           ELSE LeftBackoffAlone]_vars


-----------------------------------------------------------------------------
(* App::route_pending and App::route_pending_window, in whole seconds *)

ROUTE_PENDING_MAX_SECS == 10
ROUTE_PENDING_MIN_SECS == 2

route_pending_window_clamp(refresh) ==
    Max(Min(refresh, ROUTE_PENDING_MAX_SECS), ROUTE_PENDING_MIN_SECS)

route_pending_window(refresh) ==
    IF refresh = 0 THEN ROUTE_PENDING_MAX_SECS
    ELSE Max(Min(refresh, ROUTE_PENDING_MAX_SECS), ROUTE_PENDING_MIN_SECS)

(* duration_since fails, and the answer is false, when the request time is *)
(* after the clock reading that is passed in                               *)
route_pending(last_request, refresh, callsign, nowt) ==
    LET key == normalize_callsign(callsign)
        window == route_pending_window(refresh)
    IN  /\ key \in DOMAIN last_request
        /\ nowt >= last_request[key]
        /\ nowt - last_request[key] <= window

(* the table view asks with a fresh reading of the wall clock, which may   *)
(* have been stepped back since the request was recorded                   *)
RoutePending(callsign, nowt) ==
    /\ returned' = Some([callsign |-> callsign, at |-> nowt,
                         pending |-> route_pending(route_last_request, route_refresh,
                                                   callsign, nowt)])
    /\ last_op' = "route_pending" /\ emitted' = << >>
    /\ UNCHANGED routeVars
    /\ UNCHANGED routeHist
    /\ RouteFrame
    /\ UNCHANGED hostVars

PendingRefreshes == {0, 1, 5, 15}
PendingTicks == {2}
PendingInputs == {[now |-> Some(1), messages |-> None, aircraft |-> << AcUal >>]}
(* App::visible_indices hands over indices of displayed aircraft only *)
PendingIndexLists(aircraft) ==
    {l \in {<< 0 >>} : Len(l) <= Len(aircraft)}
PendingCallsigns == {Str_ual1_sp, Str_dal2}
ClockReadings(nowt) == {nowt} \cup {t \in {nowt - 1} : t >= 0}

InitPending ==
    /\ InitState
    /\ EngineConfigSmall
    /\ site = None /\ demo_mode = FALSE
    /\ notify_radius_mi = 100 /\ overpass_mi = 5 /\ notify_cooldown = 10
    /\ watchlist_path = None /\ smooth_mode = FALSE /\ smooth_merge = FALSE
    /\ watchlist_enabled = FALSE /\ watchlist = << >>
    /\ route_enabled = TRUE /\ route_tar1090 = FALSE
    /\ route_ttl = 16 /\ route_batch = 2
    /\ route_refresh \in PendingRefreshes

NextPending ==
    \/ \E d \in PendingTicks : Tick(d)
    \/ \E d \in PendingInputs : ApplyUpdate(d)
    \/ \E indices \in PendingIndexLists(data.aircraft) : CollectRouteRequests(indices)
    \/ \E callsign \in PendingCallsigns : \E t \in ClockReadings(now) :
           RoutePending(callsign, t)

SpecPending == InitPending /\ [][NextPending]_vars

(* what route_pending last answered, and the time of the last request      *)
(* issued for the key it was asked about                                   *)
PendingAnswer == Unwrap(returned)
PendingKey == normalize_callsign(PendingAnswer.callsign)
EverRequested == PendingKey \in DOMAIN g_issued
LastRequestAt == g_issued[PendingKey][Len(g_issued[PendingKey])]
PendingWindow ==
    IF route_refresh = 0 THEN 10
    ELSE IF route_refresh < 2 THEN 2
    ELSE IF route_refresh > 10 THEN 10
    ELSE route_refresh

(* C25: route_pending answers true exactly when the normalized callsign    *)
(* was last requested at a time t <= now with now - t inside the pending   *)
(* window, the window being 10 s for a zero refresh interval and otherwise *)
(* the refresh interval clamped to [2 s, 10 s]; it answers false for a key *)
(* that was never requested.                                               *)
C25_PendingWindow ==
    last_op = "route_pending" =>
        /\ ~EverRequested => ~PendingAnswer.pending
        /\ PendingAnswer.pending <=>
               /\ EverRequested
               /\ LastRequestAt <= PendingAnswer.at
               /\ PendingAnswer.at - LastRequestAt <= PendingWindow

(* a request 10 s old under a 15 s refresh interval is still pending *)
C25_Witness ==
    /\ last_op = "route_pending"
    /\ route_refresh = 15
    /\ EverRequested
    /\ PendingAnswer.at - LastRequestAt = 10
    /\ PendingAnswer.pending

(* the claim as stated: the window is always the clamped refresh interval *)
C25_AsStated ==
    last_op = "route_pending" =>
        (PendingAnswer.pending <=>
            /\ EverRequested
            /\ LastRequestAt <= PendingAnswer.at
            /\ PendingAnswer.at - LastRequestAt
                   <= Max(Min(route_refresh, 10), 2))


-----------------------------------------------------------------------------
(* watch_entry_matches and the WatchEntry accessors, called on one rule of *)
(* the watch list and one aircraft of the displayed snapshot              *)

WatchEntryMatches(i, j) ==
    /\ i \in 1..Len(watchlist) /\ j \in 1..Len(data.aircraft)
    /\ returned' = Some([entry |-> watchlist[i], ac |-> data.aircraft[j],
                         route |-> route_for(data.aircraft[j]),
                         matched |-> watch_entry_matches(watchlist[i],
                                         data.aircraft[j],
                                         route_for(data.aircraft[j]))])
    /\ last_op' = "watch_entry_matches" /\ emitted' = << >>
    /\ UNCHANGED routeVars
    /\ UNCHANGED routeHist
    /\ RouteFrame
    /\ UNCHANGED hostVars

WatchEntryAccessors(i) ==
    /\ i \in 1..Len(watchlist)
    /\ returned' = Some([entry |-> watchlist[i],
                         is_enabled |-> is_enabled(watchlist[i]),
                         notify_enabled |-> notify_enabled(watchlist[i]),
                         priority |-> priority(watchlist[i]),
                         match_mode |-> match_mode(watchlist[i]),
                         entry_id |-> entry_id(watchlist[i])])
    /\ last_op' = "watch_entry_accessors" /\ emitted' = << >>
    /\ UNCHANGED routeVars
    /\ UNCHANGED routeHist
    /\ RouteFrame
    /\ UNCHANGED hostVars

S_Prefix_cap == << "P", "r", "e", "f", "i", "x" >>
S_KSFO_KJFK == S_KSFO \o << "-" >> \o S_KJFK
S_one == << "1" >>
S_id_sp == << " ", "x", " " >>
S_label_sp == << "L", " " >>

MatchFields ==
    {Str_HEX_sp, S_icao, S_cs, S_flight, S_reg, S_type, S_ownop, S_category,
     S_route, S_dashes}
MatchModes == {None, Some(S_prefix), Some(S_contains), Some(S_exact), Some(S_Prefix_cap)}
MatchValues ==
    {Str_ab1_sp, Str_ual, S_one, Str_blank, S_KSFO, S_KSFO_KJFK, Str_EF3,
     Str_dal2, Str_CD2}

MatchRules ==
    {[WatchEntryDefault EXCEPT !.match_type = f, !.value = v, !.mode = m] :
        f \in MatchFields, v \in MatchValues, m \in MatchModes}

IdRules ==
    {[WatchEntryDefault EXCEPT !.match_type = S_hex, !.value = Str_ab1_sp,
                               !.id = i, !.label = l, !.enabled = e,
                               !.notify = n, !.priority = p, !.mode = m] :
        i \in {None, Some(S_id_sp), Some(Str_blank)},
        l \in {None, Some(S_label_sp), Some(Str_blank)},
        e \in {None, Some(FALSE)}, n \in {None, Some(FALSE)},
        p \in {None, Some(5)}, m \in {None, Some(S_prefix)}}

(* an aircraft with every attribute, all different *)
MatchAc ==
    [AircraftDefault EXCEPT !.hex = Some(Str_AB1), !.flight = Some(Str_UAL1_sp),
                            !.r = Some(Str_N1), !.t = Some(Str_EF3),
                            !.own_op = Some(Str_dal2), !.category = Some(Str_CD2)]

MatchInputs ==
    {[now |-> Some(1), messages |-> None, aircraft |-> a] :
        a \in {<< MatchAc >>, << AcAnon >>}}

MatchResultLists ==
    { << RouteResult(Str_UAL1_sp, Some(S_KSFO), Some(S_KJFK), Some(Str_ual)) >>,
      << RouteResult(Str_UAL1_sp, Some(Str_blank), Some(S_KJFK), Some(S_KSFO)) >>,
      << RouteResult(Str_UAL1_sp, None, None, None) >> }

InitMatch ==
    /\ InitState
    /\ EngineConfigSmall
    /\ site = None /\ demo_mode = FALSE
    /\ notify_radius_mi = 100 /\ overpass_mi = 5 /\ notify_cooldown = 10
    /\ watchlist_path = None /\ smooth_mode = FALSE /\ smooth_merge = FALSE
    /\ watchlist_enabled = FALSE
    /\ \E rule \in MatchRules \cup IdRules : watchlist = << rule >>
    /\ route_enabled = TRUE /\ route_tar1090 = FALSE
    /\ route_ttl = 16 /\ route_refresh = 8 /\ route_batch = 2

NextMatch ==
    \/ \E d \in MatchInputs : ApplyUpdate(d)
    \/ \E results \in MatchResultLists : ApplyRoutes(results)
    \/ WatchEntryMatches(1, 1)
    \/ WatchEntryAccessors(1)

SpecMatch == InitMatch /\ [][NextMatch]_vars

(* the attribute a match field names, by the spellings the code accepts *)
Lowered(s) == ToAsciiLowercase(Trim(s))
MatchKind(field) ==
    LET f == Lowered(field)
    IN  IF f \in {S_hex, S_icao, S_icao_hex} THEN "hex"
        ELSE IF f \in {S_callsign, S_flight, S_cs} THEN "callsign"
        ELSE IF f \in {S_reg, S_registration} THEN "registration"
        ELSE IF f = S_type THEN "type"
        ELSE IF f \in {S_owner, S_operator, S_ownop} THEN "owner"
        ELSE IF f = S_category THEN "category"
        ELSE IF f = S_route THEN "route"
        ELSE "unknown"

NonBlank(opt) == opt /= None /\ Trim(Unwrap(opt)) /= << >>

(* the aircraft's attribute of a kind: None when it has none *)
AttributeOf(kind, ac, route) ==
    CASE kind = "hex" -> ac.hex
      [] kind = "callsign" -> ac.flight
      [] kind = "registration" -> ac.r
      [] kind = "type" -> ac.t
      [] kind = "owner" -> ac.own_op
      [] kind = "category" -> ac.category
      [] kind = "route" ->
            IF route = None THEN None
            ELSE LET info == Unwrap(route)
                 IN  IF NonBlank(info.origin) /\ NonBlank(info.destination)
                     THEN Some(Unwrap(info.origin) \o << "-" >>
                                   \o Unwrap(info.destination))
                     ELSE info.route
      [] OTHER -> None

(* equals, starts with or contains, by the mode; any mode other than      *)
(* "prefix" and "contains", and no mode, compares for equality            *)
ModeHolds(mode, attribute, value) ==
    IF mode = Some(S_prefix)
    THEN /\ Len(attribute) >= Len(value)
         /\ \A k \in 1..Len(value) : attribute[k] = value[k]
    ELSE IF mode = Some(S_contains)
    THEN \E off \in 0..(Len(attribute) - Len(value)) :
             \A k \in 1..Len(value) : attribute[off + k] = value[k]
    ELSE attribute = value

MatchCall == Unwrap(returned)

MatchExpected(call) ==
    LET kind == MatchKind(call.entry.match_type)
        attribute == AttributeOf(kind, call.ac, call.route)
    IN  /\ Trim(call.entry.value) /= << >>
        /\ kind /= "unknown"
        /\ attribute /= None
        /\ ModeHolds(call.entry.mode, Lowered(Unwrap(attribute)),
                     Lowered(call.entry.value))

(* C26: a rule matches an aircraft exactly when its value is non-blank,    *)
(* its match field names one of hex, callsign, registration, type, owner,  *)
(* category or route, the aircraft has that attribute, and the trimmed and *)
(* lowercased attribute equals, starts with or contains the trimmed and    *)
(* lowercased value according to the mode (equality when no mode is        *)
(* given); the route attribute is origin-destination when both are         *)
(* non-blank and otherwise the free-text route; an unknown field never     *)
(* matches.                                                                *)
C26_WatchRuleMatching ==
    last_op = "watch_entry_matches" =>
        /\ MatchCall.matched <=> MatchExpected(MatchCall)
        /\ MatchKind(MatchCall.entry.match_type) = "unknown" => ~MatchCall.matched

(* a route rule in prefix mode matching the synthesized origin-destination *)
C26_Witness ==
    /\ last_op = "watch_entry_matches"
    /\ MatchCall.matched
    /\ MatchCall.entry.match_type = S_route
    /\ MatchCall.entry.mode = Some(S_prefix)
    /\ MatchCall.entry.value = S_KSFO
    /\ MatchCall.route /= None
    /\ Unwrap(MatchCall.route).origin = Some(S_KSFO)
    /\ Unwrap(MatchCall.route).destination = Some(S_KJFK)

EntryCall == Unwrap(returned)

(* C27: a rule with no enabled, notify, priority or mode behaves as        *)
(* enabled, notifying, priority 0 and mode exact, a set field gives its    *)
(* own value; the identifier is the trimmed id when that is non-blank,     *)
(* else the trimmed label when that is non-blank, else field:value.        *)
C27_DefaultsAndIdentifier ==
    last_op = "watch_entry_accessors" =>
        LET e == EntryCall.entry
        IN  /\ EntryCall.is_enabled = (IF e.enabled = None THEN TRUE ELSE Unwrap(e.enabled))
            /\ EntryCall.notify_enabled = (IF e.notify = None THEN TRUE ELSE Unwrap(e.notify))
            /\ EntryCall.priority = (IF e.priority = None THEN 0 ELSE Unwrap(e.priority))
            /\ EntryCall.match_mode = (IF e.mode = None THEN S_exact ELSE Unwrap(e.mode))
            /\ NonBlank(e.id) => EntryCall.entry_id = Trim(Unwrap(e.id))
            /\ ~NonBlank(e.id) /\ NonBlank(e.label) =>
                   EntryCall.entry_id = Trim(Unwrap(e.label))
            /\ ~NonBlank(e.id) /\ ~NonBlank(e.label) =>
                   EntryCall.entry_id = e.match_type \o << ":" >> \o e.value

(* a rule with nothing set and a blank id falls back to its trimmed label *)
C27_Witness ==
    /\ last_op = "watch_entry_accessors"
    /\ EntryCall.entry.id = Some(Str_blank)
    /\ EntryCall.entry.label = Some(S_label_sp)
    /\ EntryCall.entry.enabled = None /\ EntryCall.entry.notify = None
    /\ EntryCall.entry.priority = None /\ EntryCall.entry.mode = None
    /\ EntryCall.entry_id = << "L" >>
    /\ EntryCall.is_enabled /\ EntryCall.notify_enabled
    /\ EntryCall.priority = 0 /\ EntryCall.match_mode = S_exact


-----------------------------------------------------------------------------
(* Duplicate polls.  The hold and the time constant of the configuration,  *)
(* and the decay factor of the elapsed time, in thousandths.               *)
RateHoldMs == Max(msg_rate_window, RATE_HOLD_MIN_MS)
RateTauMs == Max(msg_rate_window * 4, RATE_TAU_MIN_MS)
DecayFactor == exp_neg(RateElapsedMs, RateTauMs)
PrevEma == Unwrap(g_prev_rate.msg_rate_ema)

-----------------------------------------------------------------------------
(* The per-aircraft rate table under snapshots whose records carry their   *)
(* own message counters                                                    *)

AcRateHex(m) == [AircraftDefault EXCEPT !.hex = Some(Str_AB1), !.messages = m]
AcRateFlt(m) == [AircraftDefault EXCEPT !.flight = Some(Str_dal2), !.messages = m]

AcRateHexCounters == {None, Some(50), Some(100)}
AcRateFltCounters == {Some(7), Some(9)}

(* none, either or both aircraft, and one list that names the same hex     *)
(* twice                                                                   *)
AcRateAircraftLists ==
    {<< >>, << AcRateHex(Some(50)), AcRateHex(Some(100)) >>}
        \cup {<< AcRateHex(m) >> : m \in AcRateHexCounters}
        \cup {<< AcRateFlt(n) >> : n \in AcRateFltCounters}
        \cup {<< AcRateHex(m), AcRateFlt(n) >> :
                  m \in AcRateHexCounters, n \in AcRateFltCounters}

AcRateInputs(t) ==
    {[now |-> Some(t), messages |-> None, aircraft |-> a] : a \in AcRateAircraftLists}

AcRateTicks == {8}

InitAcRate ==
    /\ InitState
    /\ EngineConfigSmall
    /\ NoSiteNoWatch
    /\ smooth_mode = FALSE /\ smooth_merge = FALSE
    /\ RouteConfigOff

NextAcRate ==
    \/ \E d \in AcRateTicks : Tick(d)
    \/ \E d \in AcRateInputs(now) : ApplyUpdate(d)

SpecAcRate == InitAcRate /\ [][NextAcRate]_vars

(* the records of the last snapshot that have the rate key k, in order,    *)
(* and the keys of the snapshot                                            *)
RateRecords(k) ==
    SelectSeq(raw_data.aircraft, LAMBDA ac : aircraft_rate_key(ac) = Some(k))
SnapshotRateKeys ==
    {Unwrap(aircraft_rate_key(raw_data.aircraft[i])) :
        i \in {j \in 1..Len(raw_data.aircraft) :
                  aircraft_rate_key(raw_data.aircraft[j]) /= None}}
OldRates == g_prev_aircraft_rates
HexRateKey == << "h", "e", "x", ":", "a", "b", "1" >>
FltRateKey == << "f", "l", "t", ":", "d", "a", "l", "2" >>

(* C29: the keys of the per-aircraft rate table are keys of aircraft of    *)
(* the last snapshot, and a key the table did not hold before an update    *)
(* that names it once has no EMA and no rate after it.                     *)
C29_RateTableCollected ==
    /\ DOMAIN aircraft_rates \subseteq SnapshotRateKeys
    /\ last_op = "apply_update" =>
           \A k \in DOMAIN aircraft_rates \ DOMAIN OldRates :
               Len(RateRecords(k)) = 1 =>
                   /\ aircraft_rates[k].ema = None
                   /\ aircraft_rates[k].rate = None
                   /\ aircraft_rates[k].last_messages
                          = Unwrap(RateRecords(k)[1].messages)

(* an update without the hex aircraft has removed its entry, which held a  *)
(* rate, and kept that of the other aircraft                               *)
C29_Witness ==
    /\ last_op = "apply_update"
    /\ HexRateKey \in DOMAIN OldRates
    /\ OldRates[HexRateKey].rate /= None
    /\ HexRateKey \notin DOMAIN aircraft_rates
    /\ FltRateKey \in DOMAIN aircraft_rates
    /\ FltRateKey \in DOMAIN OldRates

(* the counter the last snapshot reports for k, named once in it, went     *)
(* back, or advanced, against the table the update found                   *)
RateCounterOf(k) == Unwrap(RateRecords(k)[1].messages)
RateNamedOnce(k) ==
    /\ last_op = "apply_update"
    /\ k \in DOMAIN OldRates
    /\ Len(RateRecords(k)) = 1
    /\ RateRecords(k)[1].messages /= None
RateWentBack(k) == RateNamedOnce(k) /\ RateCounterOf(k) < OldRates[k].last_messages
RateAdvanced(k) == RateNamedOnce(k) /\ RateCounterOf(k) > OldRates[k].last_messages

(* the entry of k after an update of the old table by the records of k     *)
(* alone                                                                   *)
AloneEntry(k) ==
    update_aircraft_rates(RateRecords(k), OldRates, Unwrap(last_update),
                          msg_rate_window, msg_rate_min_secs).rates[k]

(* C30: when the counter of an aircraft is lower than the one recorded for *)
(* its key, the key's EMA and rate are unset and its last count is the new *)
(* value; every other key of the table is as an update by its own records  *)
(* alone leaves it; and an advance of a key without an EMA sets the EMA to *)
(* the instantaneous rate of that advance.                                 *)
C30_AircraftCounterReset ==
    last_op = "apply_update" =>
        \A k \in DOMAIN OldRates :
            /\ RateWentBack(k) =>
                   /\ aircraft_rates[k].ema = None
                   /\ aircraft_rates[k].rate = None
                   /\ aircraft_rates[k].last_messages = RateCounterOf(k)
                   /\ \A o \in DOMAIN aircraft_rates \ {k} :
                          aircraft_rates[o] = AloneEntry(o)
            /\ (RateAdvanced(k) /\ OldRates[k].ema = None) =>
                   /\ aircraft_rates[k].ema =
                          Some(rate_of(RateCounterOf(k) - OldRates[k].last_messages,
                                       Max((Unwrap(last_update) - OldRates[k].last_time)
                                               * 1000, msg_rate_min_secs)))
                   /\ aircraft_rates[k].rate = aircraft_rates[k].ema

(* the hex aircraft's counter went back from a state with a rate, while    *)
(* the other aircraft advanced and has its rate                            *)
C30_Witness ==
    /\ RateWentBack(HexRateKey)
    /\ OldRates[HexRateKey].ema /= None
    /\ aircraft_rates[HexRateKey].ema = None
    /\ aircraft_rates[HexRateKey].last_messages = 50
    /\ RateAdvanced(FltRateKey)
    /\ aircraft_rates[FltRateKey].rate /= None


-----------------------------------------------------------------------------
(* net.rs: the fetch worker, and runtime.rs: one whole iteration of        *)
(* run_app.  pc = "feed": draining the fetch channel; "drain": draining    *)
(* the route channel; "swap": at maybe_swap_snapshot; "dispatch": after    *)
(* the event poll, at the route dispatch; "exit": run_app has returned and *)
(* its ends of the channels are dropped.                                   *)

FeedOk(d) == [kind |-> "Ok", data |-> d, error |-> << >>]
FeedErr(m) == [kind |-> "Err", data |-> ApiResponseDefault, error |-> m]

MaxSent == 2

(* where the fetch worker goes after tx.send: it breaks out of its loop    *)
(* when the send fails, and that is when the receiver is gone              *)
fetcher_after_send_ignore(open) == "sleep"
fetcher_after_send(open) == IF open THEN "sleep" ELSE "done"

(* whether `while let Ok(message) = rx.try_recv()` ends *)
feed_drained_any(q) == TRUE
feed_drained(q) == q = << >>

WorkerFrame ==
    /\ UNCHANGED << routeVars, routeHist >>
    /\ RouteFrame

(* fetch_once and tx.send of its outcome *)
FetcherFetchStep(message) ==
    /\ fetcher_pc = "fetch"
    /\ fetcher_pc' = fetcher_after_send(feed_open)
    /\ snap_q' = IF feed_open THEN Append(snap_q, message) ELSE snap_q
    /\ g_sent' = IF feed_open THEN Append(g_sent, message) ELSE g_sent
    /\ last_op' = "fetch" /\ emitted' = << >> /\ returned' = None
    /\ UNCHANGED << pc, req_q, res_q, feed_open, worker_pc, g_applied, g_avail >>
    /\ WorkerFrame

FetcherFetch(message) ==
    /\ feed_open => Len(g_sent) < MaxSent
    /\ FetcherFetchStep(message)
    /\ UNCHANGED sideVars

(* thread::sleep(sleep) is over *)
FetcherWakeStep ==
    /\ fetcher_pc = "sleep"
    /\ fetcher_pc' = "fetch"
    /\ last_op' = "fetcher_wake" /\ emitted' = << >> /\ returned' = None
    /\ UNCHANGED << pc, req_q, res_q, snap_q, feed_open, worker_pc, g_sent,
                    g_applied, g_avail >>
    /\ WorkerFrame

FetcherWake == FetcherWakeStep /\ UNCHANGED sideVars

(* rx.recv() fails: the request channel is empty and its sender is gone *)
WorkerExit ==
    /\ worker_pc = "recv"
    /\ req_q = << >> /\ ~feed_open
    /\ worker_pc' = "done"
    /\ last_op' = "worker_exit" /\ emitted' = << >> /\ returned' = None
    /\ UNCHANGED << pc, req_q, res_q, snap_q, feed_open, fetcher_pc, g_sent,
                    g_applied, g_avail,
                    sideVars >>
    /\ WorkerFrame

(* one turn of the first while loop: the oldest message is applied *)
HostFeedRecv ==
    /\ pc = "feed"
    /\ snap_q /= << >>
    /\ IF Head(snap_q).kind = "Ok"
       THEN ApplyUpdateStep(Head(snap_q).data)
       ELSE ApplyErrorStep(Head(snap_q).error)
    /\ snap_q' = Tail(snap_q)
    /\ g_applied' = Append(g_applied, Head(snap_q))
    /\ UNCHANGED << pc, req_q, res_q, feed_open, fetcher_pc, worker_pc, g_sent,
                    g_avail,
                    sideVars >>

HostFeedDrained ==
    /\ pc = "feed"
    /\ feed_drained(snap_q)
    /\ pc' = "drain"
    /\ last_op' = "feed_drained" /\ emitted' = << >> /\ returned' = None
    /\ UNCHANGED << req_q, res_q, feedVars >>
    /\ WorkerFrame

(* run_app calls app.maybe_swap_snapshot(now) for its effect; the call    *)
(* returns the unit value                                                  *)
HostSwap ==
    /\ pc = "swap"
    /\ \E publish \in {smooth_mode /\ swap_due(ui_interval, last_swap, now)} :
           MaybeSwapSnapshotBody(publish)
    /\ returned' = None
    /\ pc' = "dispatch"
    /\ UNCHANGED << req_q, res_q, feedVars >>

(* the key q: run_app returns, and rx, req_tx and res_rx are dropped with  *)
(* what they still hold; the batches already sent stay with the worker     *)
HostQuit ==
    /\ pc = "dispatch"
    /\ pc' = "exit"
    /\ feed_open' = FALSE
    /\ snap_q' = << >> /\ res_q' = << >>
    /\ last_op' = "quit" /\ emitted' = << >> /\ returned' = None
    /\ UNCHANGED << req_q, fetcher_pc, worker_pc, g_sent, g_applied, g_avail,
                    sideVars >>
    /\ WorkerFrame

(* the dispatch ends the iteration; the next one begins with what the     *)
(* fetch worker has sent by then                                           *)
HostDispatchNext(indices) ==
    /\ HostDispatchStep(indices, "feed")
    /\ g_avail' = Len(g_sent)
    /\ UNCHANGED << snap_q, feed_open, fetcher_pc, worker_pc, g_sent, g_applied,
                    sideVars >>

LoopInputs == {[now |-> Some(1), messages |-> None, aircraft |-> << AcDal >>],
               [now |-> Some(2), messages |-> None, aircraft |-> << >>]}

FeedMessages == {FeedOk(d) : d \in LoopInputs} \cup {FeedErr(Msg_timeout)}

InitLoop ==
    /\ InitFields /\ InitOneSource /\ pc = "feed"
    /\ NoSiteNoWatch
    /\ trail_len = 1 /\ ui_interval = 0
    /\ msg_rate_window = 300 /\ msg_rate_min_secs = 250
    /\ smooth_mode = TRUE /\ smooth_merge = FALSE
    /\ route_enabled = TRUE /\ route_tar1090 = FALSE
    /\ route_ttl = 16 /\ route_refresh = 0 /\ route_batch = 1

Fetcher == (\E message \in FeedMessages : FetcherFetch(message)) \/ FetcherWake
RouteWorker == (\E ok \in BOOLEAN : WorkerFetch(ok, ErrPlain)) \/ WorkerExit

NextLoop ==
    \/ \E message \in FeedMessages : FetcherFetch(message)
    \/ FetcherWake
    \/ \E ok \in BOOLEAN : WorkerFetch(ok, ErrPlain)
    \/ WorkerExit
    \/ HostFeedRecv
    \/ HostFeedDrained
    \/ HostRecvRouteResults
    \/ HostRecvRouteError
    \/ HostDrainedTo("swap")
    \/ HostSwap
    \/ HostQuit
    \/ \E indices \in VisibleIndexLists(data.aircraft) : HostDispatchNext(indices)

SpecLoop == InitLoop /\ [][NextLoop]_vars

(* each worker is a thread of its own, which the scheduler lets run; its  *)
(* steps change its position or its channels                               *)
fetcherVars == << fetcher_pc, snap_q, g_sent >>
workerVars == << worker_pc, req_q, res_q >>
SpecLoopFair ==
    SpecLoop /\ WF_fetcherVars(Fetcher) /\ WF_workerVars(RouteWorker)

(* C23: run_app applies the messages of the fetch channel one at a time in *)
(* the order they were sent: every step that applies one applies the       *)
(* oldest queued message, a result by apply_update and an error by         *)
(* apply_error, and no other step takes a message; what was applied and    *)
(* what is queued are together what was sent; and at the publish decision  *)
(* every message sent before the iteration began has been applied.         *)
C23_IngestionOrder ==
    [][/\ g_applied' /= g_applied =>
              /\ snap_q /= << >>
              /\ g_applied' = Append(g_applied, Head(snap_q))
              /\ snap_q' = Tail(snap_q)
              /\ Head(snap_q).kind = "Ok" =>
                     /\ last_op' = "apply_update"
                     /\ raw_data' = Head(snap_q).data
                     /\ last_error' = None
              /\ Head(snap_q).kind = "Err" =>
                     /\ last_op' = "apply_error"
                     /\ last_error' = Some(Head(snap_q).error)
                     /\ raw_data' = raw_data
       /\ last_op' \in {"apply_update", "apply_error"} => g_applied' /= g_applied
       /\ feed_open' => g_applied' \o snap_q' = g_sent'
       /\ last_op' = "maybe_swap_snapshot" => Len(g_applied') >= g_avail']_vars

(* a publish decision taken after an error and a later snapshot, both sent *)
(* before the iteration began, were applied in that order                  *)
C23_Witness ==
    /\ last_op = "maybe_swap_snapshot"
    /\ g_avail >= 2
    /\ Len(g_applied) >= 2
    /\ g_applied[Len(g_applied) - 1].kind = "Err"
    /\ g_applied[Len(g_applied)].kind = "Ok"
    /\ raw_data = g_applied[Len(g_applied)].data
    /\ last_error = None

(* C24: once run_app has dropped its ends of the channels, the fetch       *)
(* worker ends at its next send and the route worker ends when it finds    *)
(* its request channel empty; both do end, run_app puts nothing more on    *)
(* the request channel, and neither worker ends before the drop.           *)
C24_WorkerCancellation ==
    /\ [][/\ (~feed_open /\ last_op' = "fetch") => fetcher_pc' = "done"
          /\ ~feed_open => (Len(req_q') <= Len(req_q) /\ ~feed_open')
          /\ (feed_open /\ feed_open') =>
                 (fetcher_pc' /= "done" /\ worker_pc' /= "done")
          /\ (worker_pc /= "done" /\ worker_pc' = "done") => req_q = << >>]_hostVars
    /\ ~feed_open ~> (fetcher_pc = "done" /\ worker_pc = "done")

(* both workers have ended after a quit that left a batch with the route   *)
(* worker and the fetch worker asleep                                      *)
C24_Witness ==
    /\ ~feed_open
    /\ fetcher_pc = "done" /\ worker_pc = "done"
    /\ pc = "exit"
    /\ g_sent /= << >>
    /\ g_issued /= << >>


(* the keys of the table that have a rate, the sum of their rates and the  *)
(* mean, each key once                                                     *)
RatedKeys(rates) == {k \in DOMAIN rates : rates[k].rate /= None}

RECURSIVE RateSum(_, _)
RateSum(rates, keys) ==
    IF keys = {} THEN 0
    ELSE LET k == CHOOSE x \in keys : TRUE
         IN  Unwrap(rates[k].rate) + RateSum(rates, keys \ {k})

TableMean(rates) ==
    IF RatedKeys(rates) = {} THEN None
    ELSE Some(RateSum(rates, RatedKeys(rates)) \div Cardinality(RatedKeys(rates)))

(* every record of the last snapshot that has a rate key reports a message *)
(* counter, and no key is named twice                                      *)
AllKeysReportOnce ==
    \A k \in SnapshotRateKeys :
        /\ Len(RateRecords(k)) = 1
        /\ RateRecords(k)[1].messages /= None

(* C31: after every apply_update the average per-aircraft rate is the mean *)
(* of the rates of the entries of the rate table that have one, each key   *)
(* counted once, and is unset when no entry has a rate.                    *)
C31_AsStated ==
    last_op = "apply_update" => avg_aircraft_rate = TableMean(aircraft_rates)

(* what update_aircraft_rates keeps: the stated mean when every keyed      *)
(* record of the snapshot reports a counter and no key is named twice      *)
C31_MeanOfReporting ==
    (last_op = "apply_update" /\ AllKeysReportOnce) =>
        avg_aircraft_rate = TableMean(aircraft_rates)

(* an aircraft whose record carries no counter keeps its rate in the table *)
(* and the average is unset                                                *)
C31_Stale ==
    /\ last_op = "apply_update"
    /\ HexRateKey \in DOMAIN aircraft_rates
    /\ aircraft_rates[HexRateKey].rate /= None
    /\ avg_aircraft_rate = None


-----------------------------------------------------------------------------
(* The notifiers of an engine without a usable site: none configured, or   *)
(* one that demo mode hides; the watchlist is on with one rule             *)

SiteChoices == {[site |-> None, demo_mode |-> FALSE],
                [site |-> None, demo_mode |-> TRUE],
                [site |-> Some(SiteHere), demo_mode |-> TRUE]}

NoSiteTicks == {10}

InitNoSite ==
    /\ InitState
    /\ EngineConfigSmall
    /\ \E c \in SiteChoices : site = c.site /\ demo_mode = c.demo_mode
    /\ notify_radius_mi = 100 /\ overpass_mi = 5 /\ notify_cooldown = 10
    /\ watchlist_path = None /\ smooth_mode = FALSE /\ smooth_merge = FALSE
    /\ watchlist_enabled = TRUE /\ watchlist = << WR_hex1 >>
    /\ RouteConfigOff

NextNoSite ==
    \/ \E d \in NoSiteTicks : Tick(d)
    \/ \E d \in ProxInputs(now) : ApplyUpdate(d)

SpecNoSite == InitNoSite /\ [][NextNoSite]_vars

(* the proximity notes of a list of notifications *)
ProxNotes(notes) == SelectSeq(notes, LAMBDA n : n.kind \in {"NEAR", "OVER"})

(* an aircraft of the last snapshot lies within the radius of the          *)
(* configured site                                                         *)
NearConfiguredSite ==
    \E i \in 1..Len(raw_data.aircraft) :
        LET ac == raw_data.aircraft[i]
        IN  /\ site /= None /\ ac.lat /= None /\ ac.lon /= None
            /\ notify_key(ac) /= None
            /\ distance_mi(Unwrap(site).lat, Unwrap(site).lon,
                           Unwrap(ac.lat), Unwrap(ac.lon)) <= notify_radius_mi

(* C32: when the engine has no site, or demo mode hides it, an             *)
(* apply_update pass pushes no proximity notification and leaves the       *)
(* proximity recency map as it was, whatever the snapshot holds.           *)
C32_NoSiteNoProximity ==
    [][(last_op' = "apply_update" /\ (site = None \/ demo_mode)) =>
           /\ notified_recent' = notified_recent
           /\ \A i \in 1..Len(emitted') : emitted'[i].stream /= "prox"
           /\ ProxNotes(notifications') = ProxNotes(notifications)
           /\ g_prox_alert' = g_prox_alert]_vars

(* demo mode hides a configured site: an aircraft within its radius was    *)
(* ingested, the watchlist raised its alert and the proximity notifier     *)
(* did nothing                                                             *)
C32_Witness ==
    /\ last_op = "apply_update"
    /\ site /= None /\ demo_mode
    /\ NearConfiguredSite
    /\ notified_recent = << >>
    /\ ProxNotes(notifications) = << >>
    /\ \E i \in 1..Len(emitted) : emitted[i].stream = "watch"


-----------------------------------------------------------------------------
(* The recency maps over a clock that runs past their maximum age          *)

MaxPruneTime == 130

(* the clock of the host advances by d seconds, up to `limit` *)
TickWithin(d, limit) ==
    /\ d > 0
    /\ now + d <= limit
    /\ now' = now + d
    /\ last_op' = "tick" /\ emitted' = << >> /\ returned' = None
    /\ g_prev_prox' = g_prox_alert /\ g_prev_watch' = g_watch_alert
    /\ UNCHANGED << g_prox_alert, g_watch_alert >>
    /\ UNCHANGED << cfgVars, snapVars, notifyVars, watchVars, routeVars, hostVars,
                    routeHist >>

PruneTicks == {35}
PruneCooldowns == {10, 20, 40}
PruneAircraftLists == { << >>, << AcNear >>, << AcEdge >> }
PruneInputs(t) ==
    {[now |-> Some(t), messages |-> None, aircraft |-> a] : a \in PruneAircraftLists}

InitPrune ==
    /\ InitState
    /\ EngineConfigSmall
    /\ site = Some(SiteHere) /\ demo_mode = FALSE
    /\ notify_radius_mi = 100 /\ overpass_mi = 5
    /\ notify_cooldown \in PruneCooldowns
    /\ watchlist_path = None /\ smooth_mode = FALSE /\ smooth_merge = FALSE
    /\ watchlist_enabled = TRUE /\ watchlist = << WR_hex1 >>
    /\ RouteConfigOff

NextPrune ==
    \/ \E d \in PruneTicks : TickWithin(d, MaxPruneTime)
    \/ \E d \in PruneInputs(now) : ApplyUpdate(d)

SpecPrune == InitPrune /\ [][NextPrune]_vars

(* what a pass at time nowt did to one recency map, given the map before   *)
(* it, the map after it and the keys it alerted for: entries older than    *)
(* the maximum age are gone unless alerted again, the others stay, and      *)
(* those younger than the cooldown stay as they were                        *)
PruneMaxAge == Max(4 * notify_cooldown, 60)

PrunedSafely(before, after, alerted, nowt) ==
    /\ \A k \in DOMAIN before :
           LET age == DurationSince(nowt, before[k])
           IN  /\ (age /= None /\ Unwrap(age) > PruneMaxAge /\ k \notin alerted)
                      => k \notin DOMAIN after
               /\ (age = None \/ Unwrap(age) <= PruneMaxAge) => k \in DOMAIN after
               /\ (age /= None /\ Unwrap(age) < notify_cooldown) =>
                      (k \in DOMAIN after /\ after[k] = before[k] /\ k \notin alerted)
    /\ \A k \in DOMAIN after : k \in DOMAIN before \/ k \in alerted

(* the keys the last pass alerted for: proximity keys, watch recency keys  *)
(* and the (rule, aircraft) pairs of the watch alerts                      *)
ProxAlerted == {emitted[i].key : i \in {j \in 1..Len(emitted) : emitted[j].stream = "prox"}}
WatchAlertedPairs ==
    {<< emitted[i].rule, emitted[i].key >> :
        i \in {j \in 1..Len(emitted) : emitted[j].stream = "watch"}}
WatchAlerted == {watch_notify_key(p[1], p[2]) : p \in WatchAlertedPairs}

(* C33: a notification pass removes the recency entries older than         *)
(* max(4 x cooldown, 60 s) and no other; an entry younger than the         *)
(* cooldown stays as it is; and every alert of the pass comes at least one *)
(* cooldown after the previous alert for its key, pruned or not.           *)
C33_PruningIsSafe ==
    [][last_op' = "apply_update" =>
           /\ (site_of /= None /\ notify_radius_mi > 0) =>
                  PrunedSafely(notified_recent, notified_recent', ProxAlerted',
                               Unwrap(last_update'))
           /\ (watchlist_enabled /\ watchlist /= << >>) =>
                  PrunedSafely(watch_notified_recent, watch_notified_recent',
                               WatchAlerted', Unwrap(last_update'))
           /\ \A k \in ProxAlerted' :
                  k \in DOMAIN g_prox_alert =>
                      Unwrap(last_update') - g_prox_alert[k] >= notify_cooldown
           /\ \A p \in WatchAlertedPairs' :
                  p \in DOMAIN g_watch_alert =>
                      Unwrap(last_update') - g_watch_alert[p] >= notify_cooldown]_vars

(* a pass pruned the proximity entry of an aircraft that was not in the    *)
(* snapshot, alerted more than the maximum age before, and kept nothing    *)
(* for it                                                                  *)
C33_Witness ==
    /\ last_op = "apply_update"
    /\ Unwrap(notify_key(AcNear)) \in DOMAIN g_prox_alert
    /\ Unwrap(last_update) - g_prox_alert[Unwrap(notify_key(AcNear))] > PruneMaxAge
    /\ Unwrap(notify_key(AcNear)) \notin DOMAIN notified_recent
    /\ DOMAIN watch_notified_recent = {}
    /\ DOMAIN g_watch_alert /= {}
    /\ Unwrap(notify_key(AcEdge)) \in DOMAIN notified_recent


-----------------------------------------------------------------------------
(* net.rs: the sources of the fetch worker and their backoff.  A source is *)
(* [attempts, backoff_until]; times are milliseconds of the worker's clock. *)

FETCH_SLEEP_DEFAULT_MS == 200
FETCH_JITTER_STEP == 173
FETCH_BACKOFF_MAX_SHIFT == 6
FETCH_BACKOFF_CAP_SECS == 60

(* let sleep = if refresh.is_zero() { 200 ms } else { refresh } *)
fetcher_sleep(refresh) == IF refresh = 0 THEN FETCH_SLEEP_DEFAULT_MS ELSE refresh

backoff_duration(attempts) ==
    IF attempts = 0 THEN 0
    ELSE LET shift == Min(Max(attempts - 1, 0), FETCH_BACKOFF_MAX_SHIFT)
             base_secs == 2 ^ shift
             jitter_ms == (attempts * FETCH_JITTER_STEP) % 1000
         IN  Min(base_secs, FETCH_BACKOFF_CAP_SECS) * 1000 + jitter_ms

(* s.backoff_until.is_some_and(|until| until > now) *)
source_in_backoff(src, nowt) ==
    src.backoff_until /= None /\ Unwrap(src.backoff_until) > nowt

(* the inner while loop: the index it leaves in `current` (0-based) *)
RECURSIVE next_source(_, _, _, _)
next_source(srcs, cur, checked, nowt) ==
    IF checked < Len(srcs) /\ source_in_backoff(srcs[cur + 1], nowt)
    THEN next_source(srcs, (cur + 1) % Len(srcs), checked + 1, nowt)
    ELSE cur

(* a success that leaves the source as it was *)
source_after_ok_keep(src) == src

(* FetchResult::Ok: the source after it *)
source_after_ok(src) == [attempts |-> 0, backoff_until |-> None]

(* FetchResult::Err { retry_after }: the source after it (the attempts    *)
(* saturate at u32::MAX, which no run here comes near)                     *)
source_after_err(src, retry_after, nowt) ==
    LET attempts == src.attempts + 1
        backoff == IF retry_after /= None THEN Unwrap(retry_after)
                   ELSE backoff_duration(attempts)
    IN  [attempts |-> attempts, backoff_until |-> Some(nowt + backoff)]

FetchOutcomeOk == [kind |-> "Ok", retry_after |-> None]
FetchOutcomeErr(retry_after) == [kind |-> "Err", retry_after |-> retry_after]

(* what the worker sends for an outcome *)
outcome_message(outcome) ==
    IF outcome.kind = "Ok" THEN FeedOk(ApiResponseDefault) ELSE FeedErr(Msg_timeout)

MaxFetches == 5

(* one turn of the worker's loop up to its sleep: the choice of the        *)
(* source, fetch_once (which takes `took` ms), the bookkeeping of the      *)
(* source, the send and the switch to the next source after a failure      *)
SourceFetch(outcome, took) ==
    LET nowt == fetch_clock
        cur == next_source(sources, current, 0, nowt)
        src == sources[cur + 1]
    IN  /\ feed_open => Len(g_sent) < MaxFetches
        /\ FetcherFetchStep(outcome_message(outcome))
        /\ sources' = [sources EXCEPT ![cur + 1] =
                          IF outcome.kind = "Ok" THEN source_after_ok(src)
                          ELSE source_after_err(src, outcome.retry_after, nowt)]
        /\ current' = IF outcome.kind = "Err" /\ feed_open /\ Len(sources) > 1
                      THEN (cur + 1) % Len(sources) ELSE cur
        /\ fetch_clock' = fetch_clock + took
        /\ g_fetch' = Some([source |-> cur, at |-> nowt, before |-> src,
                            all_in_backoff |->
                                \A i \in 1..Len(sources) :
                                    source_in_backoff(sources[i], nowt),
                            outcome |-> outcome])
        /\ UNCHANGED << fetch_sleep, lookVars >>

(* thread::sleep(sleep) *)
SourceWake ==
    /\ FetcherWakeStep
    /\ fetch_clock' = fetch_clock + fetch_sleep
    /\ UNCHANGED << sources, current, fetch_sleep, g_fetch, lookVars >>

FetchRefreshes == {0, 2000}
FetchTook == {0, 300}
FetchOutcomes == {FetchOutcomeOk, FetchOutcomeErr(None), FetchOutcomeErr(Some(3000))}
SourceCounts == {1, 2}

InitFetcher ==
    /\ InitFields /\ pc = "feed"
    /\ NoSiteNoWatch
    /\ trail_len = 1 /\ ui_interval = 0
    /\ msg_rate_window = 300 /\ msg_rate_min_secs = 250
    /\ smooth_mode = TRUE /\ smooth_merge = FALSE
    /\ RouteConfigOff
    /\ \E n \in SourceCounts : sources = [i \in 1..n |-> SourceFresh]
    /\ \E r \in FetchRefreshes : fetch_sleep = fetcher_sleep(r)

NextFetcher ==
    \/ \E outcome \in FetchOutcomes, took \in FetchTook : SourceFetch(outcome, took)
    \/ SourceWake
    \/ HostFeedRecv

SpecFetcher == InitFetcher /\ [][NextFetcher]_vars

(* the source the last fetch went to was in backoff when it was chosen *)
FetchedInBackoff ==
    g_fetch /= None /\ source_in_backoff(Unwrap(g_fetch).before, Unwrap(g_fetch).at)

(* a successful fetch left its source with no attempts and no backoff *)
SuccessResets ==
    (last_op = "fetch" /\ g_fetch /= None /\ Unwrap(g_fetch).outcome.kind = "Ok") =>
        sources[Unwrap(g_fetch).source + 1] = SourceFresh

(* C34: the fetch worker never fetches from a source whose backoff         *)
(* deadline has not passed, however many sources there are and also when   *)
(* every source is in backoff; a successful fetch resets the source's      *)
(* attempt count to 0 and clears its backoff.                              *)
C34_AsStated ==
    /\ ~FetchedInBackoff
    /\ SuccessResets

(* what the worker keeps: a source in backoff is fetched only when every   *)
(* source is in backoff, and it is then the one `current` names            *)
C34_BackoffUnlessAll ==
    /\ FetchedInBackoff => Unwrap(g_fetch).all_in_backoff
    /\ SuccessResets

(* the only source failed, and was fetched again before its deadline *)
C34_SingleSourceInBackoff ==
    /\ last_op = "fetch"
    /\ Len(sources) = 1
    /\ FetchedInBackoff
    /\ Unwrap(g_fetch).before.attempts = 1


-----------------------------------------------------------------------------
(* The host loop over a fixed list of two aircraft with a batch limit of   *)
(* one and a route worker whose fetches may fail                            *)

StarveAircraft == << AcUal, AcDal >>
StarveInput == [now |-> Some(1), messages |-> None, aircraft |-> StarveAircraft]
(* every displayed aircraft is visible, in list order *)
StarveIndices == [i \in 1..Len(data.aircraft) |-> i - 1]
StarveRefreshes == {0, 8}
StarveTicks == {8}

InitStarve ==
    /\ InitState
    /\ EngineConfigSmall
    /\ NoSiteNoWatch
    /\ smooth_mode = FALSE /\ smooth_merge = FALSE
    /\ route_enabled = TRUE /\ route_tar1090 = FALSE
    /\ route_ttl = 16 /\ route_refresh \in StarveRefreshes /\ route_batch = 1

(* the steps of run_app, and those of the route worker, which answers a    *)
(* batch with its routes or with an error that is no rate limit            *)
StarveHost ==
    \/ HostRecvSnapshot(StarveInput)
    \/ HostRecvRouteResults
    \/ HostRecvRouteError
    \/ HostDrained
    \/ HostDispatch(StarveIndices)
StarveWorker == \E ok \in BOOLEAN : WorkerFetch(ok, ErrPlain)

NextStarve ==
    \/ \E d \in StarveTicks : Tick(d)
    \/ StarveHost
    \/ StarveWorker

SpecStarve == InitStarve /\ [][NextStarve]_vars

(* the same loop at one instant, with every request due (refresh 0): run_app *)
(* loops for as long as the program runs and the worker is a thread of its  *)
(* own, so each goes on whenever it can                                      *)
InitStarveLoop == InitStarve /\ route_refresh = 0
NextStarveLoop == StarveHost \/ StarveWorker

SpecStarveFair ==
    /\ InitStarveLoop /\ [][NextStarveLoop]_vars
    /\ WF_vars(StarveHost) /\ WF_vars(StarveWorker)

StarveVisible == data.aircraft = StarveAircraft
StarveIssued(ac) == normalize_callsign(Unwrap(ac.flight)) \in DOMAIN g_issued

(* C35: with lookups on, no backoff in effect and a fixed list of visible  *)
(* aircraft longer than the batch limit, every visible aircraft's callsign *)
(* is eventually in a batch handed to the worker, whatever the worker      *)
(* returns.                                                                *)
C35_AsStated ==
    /\ StarveVisible ~> StarveIssued(AcUal)
    /\ StarveVisible ~> StarveIssued(AcDal)

(* what collect_route_requests does while the first aircraft has no fresh  *)
(* cache entry: every batch is that aircraft alone                          *)
C35_FrontOnly ==
    (/\ last_op = "dispatch" /\ returned /= None /\ StarveVisible
     /\ normalize_callsign(Unwrap(AcUal.flight)) \notin DOMAIN route_cache
     /\ Unwrap(returned).requests /= << >>) =>
        /\ Len(Unwrap(returned).requests) = 1
        /\ Unwrap(returned).requests[1].callsign = Trim(Unwrap(AcUal.flight))

(* a second batch for the first aircraft, one refresh interval after the   *)
(* first, while the second aircraft has never been asked for                *)
C35_Starved ==
    /\ last_op = "dispatch" /\ returned /= None /\ StarveVisible
    /\ route_refresh > 0
    /\ Unwrap(returned).requests /= << >>
    /\ Len(g_issued[normalize_callsign(Unwrap(AcUal.flight))]) = 2
    /\ ~StarveIssued(AcDal)


-----------------------------------------------------------------------------
(* The host loop on a clock finer than the refresh interval, over          *)
(* snapshots with and without a callsign to ask for                         *)

SpacingInputs ==
    {[now |-> Some(1), messages |-> None, aircraft |-> a] :
        a \in { << AcDal >>, << AcNoFlight >> }}
SpacingTicks == {5}

InitSpacing ==
    /\ InitState
    /\ EngineConfigSmall
    /\ NoSiteNoWatch
    /\ smooth_mode = FALSE /\ smooth_merge = FALSE
    /\ route_enabled = TRUE /\ route_tar1090 \in BOOLEAN
    /\ route_ttl = 16 /\ route_refresh = 8 /\ route_batch = 1

NextSpacing ==
    \/ \E d \in SpacingTicks : Tick(d)
    \/ \E d \in SpacingInputs : HostRecvSnapshot(d)
    \/ HostRecvRouteResults
    \/ HostRecvRouteError
    \/ HostDrained
    \/ HostDispatch(StarveIndices)
    \/ \E ok \in BOOLEAN : WorkerFetch(ok, ErrLimited3)

SpecSpacing == InitSpacing /\ [][NextSpacing]_vars

(* C36: with a refresh interval above zero, a batch is handed to the       *)
(* route worker only when at least one interval has passed since the       *)
(* batch before it, and the poll time is set, to the time of the batch,    *)
(* by the steps that hand one over and by no other: a collection that      *)
(* finds nothing to ask for sends nothing and leaves the poll time.        *)
C36_PollSpacing ==
    [][route_refresh > 0 =>
           IF Len(req_q') > Len(req_q)
           THEN /\ last_op' = "dispatch"
                /\ route_last_poll /= None => now - Unwrap(route_last_poll) >= route_refresh
                /\ route_last_poll' = Some(now)
           ELSE route_last_poll' = route_last_poll]_vars

(* a collection that was due found nothing to ask for: nothing was sent    *)
(* and the poll time is still that of the last batch, more than an         *)
(* interval ago                                                            *)
C36_Witness ==
    /\ last_op = "dispatch" /\ ~route_tar1090
    /\ returned /= None /\ Unwrap(returned).requests = << >>
    /\ route_last_poll /= None
    /\ now - Unwrap(route_last_poll) > route_refresh
    /\ \E k \in DOMAIN g_issued : Len(g_issued[k]) = 2

-----------------------------------------------------------------------------
(* The failure counter across an expired deadline: failures of the route   *)
(* worker, successes, and calls of route_refresh_due as time passes        *)

ExpiryTicks == {6}

ExpiryErrors == {ErrLimited, ErrPlain}

InitExpiry == InitBackoff

NextExpiry ==
    \/ \E d \in ExpiryTicks : Tick(d)
    \/ \E m \in ExpiryErrors : SetRouteError(m)
    \/ \E results \in RouteResultLists : ApplyRoutes(results)
    \/ RouteRefreshDue

SpecExpiry == InitExpiry /\ [][NextExpiry]_vars

(* the deadline of the failure before the last one had passed when the    *)
(* last one was noted                                                      *)
FollowedExpiredBackoff ==
    /\ Len(g_backoffs) = 2
    /\ g_backoffs[2].at >= g_backoffs[1].at + g_backoffs[1].backoff

(* C37: route_refresh_due clears a deadline that has passed and leaves the *)
(* count of consecutive failures as it was; the count goes to zero only in *)
(* apply_routes and otherwise changes only by a rate-limit failure adding  *)
(* one; so a rate-limit failure that follows an expired backoff with no    *)
(* success in between carries the next number of the sequence and its      *)
(* duration, not the first                                                  *)
C37_CounterSurvivesExpiry ==
    [][ /\ last_op' = "route_refresh_due" =>
            /\ route_backoff_attempts' = route_backoff_attempts
            /\ route_backoff_until' =
                   IF route_backoff_until /= None /\ Unwrap(route_backoff_until) > now
                   THEN route_backoff_until ELSE None
        /\ route_backoff_attempts' /= route_backoff_attempts =>
            \/ last_op' = "apply_routes" /\ route_backoff_attempts' = 0
            \/ /\ last_op' = "set_route_error"
               /\ route_backoff_attempts' = route_backoff_attempts + 1
        /\ (route_backoff_attempts' = 0 /\ route_backoff_attempts > 0) =>
            last_op' = "apply_routes"
        /\ (last_op' = "set_route_error" /\ Unwrap(returned').limited
            /\ g_backoffs /= << >>) =>
            /\ route_backoff_attempts' = g_backoffs[Len(g_backoffs)].n + 1
            /\ route_backoff_until' =
                   Some(now + Max(route_backoff_duration(route_backoff_attempts'),
                                  Unwrap(returned').hint))
      ]_vars

(* a second rate-limit failure noted after the first one's deadline had   *)
(* passed and been cleared: it is number two and waits four seconds        *)
C37_Witness ==
    /\ last_op = "set_route_error"
    /\ FollowedExpiredBackoff
    /\ g_backoffs[1].n = 1 /\ g_backoffs[2].n = 2
    /\ route_backoff_attempts = 2
    /\ route_backoff_until = Some(now + 4)

(* route_refresh_due has cleared a passed deadline with failures counted *)
C37_Cleared ==
    /\ last_op = "route_refresh_due"
    /\ route_backoff_until = None
    /\ route_backoff_attempts >= 1

-----------------------------------------------------------------------------
(* Publishing again: snapshots, one of them listing one airframe twice,    *)
(* feed errors, and calls of maybe_swap_snapshot between them              *)

PublishAircraftLists ==
    { << MergeFull >>, << MergeBare >>, << MergeFlt >>, << MergeAnon, MergeBare >>,
      << MergeBare, MergeFull >> }

PublishInputs(t) ==
    {[now |-> Some(t), messages |-> None, aircraft |-> a] : a \in PublishAircraftLists}
        \cup {[now |-> None, messages |-> None, aircraft |-> << MergeBare >>]}

InitPublish ==
    /\ InitState
    /\ NoSiteNoWatch
    /\ RouteConfigOff
    /\ smooth_mode = TRUE /\ smooth_merge \in BOOLEAN
    /\ trail_len = 1 /\ ui_interval \in UiIntervals
    /\ msg_rate_window = 300 /\ msg_rate_min_secs = 250

NextPublish ==
    \/ now < SmoothHorizon /\ Tick(1)
    \/ \E d \in PublishInputs(now) : ApplyUpdate(d)
    \/ \E msg \in FeedErrors : ApplyError(msg)
    \/ MaybeSwapSnapshot

SpecPublish == InitPublish /\ [][NextPublish]_vars

(* maybe_swap_snapshot has just replaced the DisplaySnapshot *)
JustPublished == last_op = "maybe_swap_snapshot" /\ returned = Some(TRUE)

(* no two aircraft of the snapshot have the same identity key *)
KeysUnique(aircraft) ==
    \A i, j \in 1..Len(aircraft) :
        (i /= j /\ notify_key(aircraft[i]) /= None)
            => notify_key(aircraft[i]) /= notify_key(aircraft[j])

(* C38: a DisplaySnapshot that has just been published is the one that     *)
(* publishing again, with the same raw snapshot, would give: publishing    *)
(* twice yields what publishing once yields, with merge on or off          *)
C38_AsStated ==
    JustPublished => swap_snapshot(raw_data, data, smooth_merge) = data

(* the same, for raw snapshots that list every identity key once *)
C38_IdempotentUniqueKeys ==
    (JustPublished /\ KeysUnique(raw_data.aircraft))
        => swap_snapshot(raw_data, data, smooth_merge) = data

(* two publishes in a row, nothing ingested between them, and the second  *)
(* one changes what is displayed                                           *)
C38_SecondPublishDiffers ==
    [][ (JustPublished /\ last_op' = "maybe_swap_snapshot"
         /\ returned' = Some(TRUE)) => data' = data ]_vars

-----------------------------------------------------------------------------
(* app.rs: parse_lookup_input, split_list, parse_point *)

S_call == << "c", "a", "l", "l" >>
S_squawk == << "s", "q", "u", "a", "w", "k" >>
S_sqk == << "s", "q", "k" >>
S_point == << "p", "o", "i", "n", "t" >>
S_mil == << "m", "i", "l" >>
S_ladd == << "l", "a", "d", "d" >>
S_pia == << "p", "i", "a" >>

(* str::find(':'): the first index of c in s, 0 when there is none *)
FindChar(s, c) ==
    LET hits == {i \in 1..Len(s) : s[i] = c}
    IN  IF hits = {} THEN 0 ELSE CHOOSE i \in hits : \A j \in hits : i <= j

(* the non-empty pieces of s between characters of seps *)
RECURSIVE SplitOn(_, _, _)
SplitOn(s, seps, piece) ==
    IF s = << >> THEN (IF piece = << >> THEN << >> ELSE << piece >>)
    ELSE IF Head(s) \in seps
    THEN (IF piece = << >> THEN << >> ELSE << piece >>) \o SplitOn(Tail(s), seps, << >>)
    ELSE SplitOn(Tail(s), seps, Append(piece, Head(s)))

split_whitespace(s) == SplitOn(s, {" "}, << >>)

RECURSIVE JoinSpace(_)
JoinSpace(parts) ==
    IF parts = << >> THEN << >>
    ELSE IF Len(parts) = 1 THEN parts[1]
    ELSE parts[1] \o << " " >> \o JoinSpace(Tail(parts))

split_list(text) == SplitOn(text, {",", " "}, << >>)

LookupKind(tag, list) == [tag |-> tag, list |-> list]

(* parse_point: three numbers; of the f64 literals only the unsigned       *)
(* integers are modelled                                                    *)
parse_point(args) ==
    LET parts == SplitOn(args, {",", " "}, << >>)
    IN  IF Len(parts) /= 3 THEN None
        ELSE IF \E i \in 1..3 : ParseU64(parts[i]) = None THEN None
        ELSE Some(LookupKind("Point", parts))

(* the `?` on tail_opt: a keyword that needs arguments and has none *)
WithTail(tail_opt, tag) ==
    IF tail_opt = None THEN None
    ELSE Some(LookupKind(tag, split_list(Unwrap(tail_opt))))

parse_lookup_input(input) ==
    LET trimmed == Trim(input)
        idx == FindChar(trimmed, ":")
        parts == split_whitespace(trimmed)
        rest == JoinSpace(Tail(parts))
        head == IF idx /= 0 THEN ToAsciiLowercase(Trim(SubSeq(trimmed, 1, idx - 1)))
                ELSE ToAsciiLowercase(parts[1])
        tail_opt == IF idx /= 0 THEN Some(Trim(SubSeq(trimmed, idx + 1, Len(trimmed))))
                    ELSE IF rest = << >> THEN None ELSE Some(rest)
    IN  IF trimmed = << >> THEN None
        ELSE IF head = S_hex THEN WithTail(tail_opt, "Hex")
        ELSE IF head \in {S_callsign, S_call, S_cs} THEN WithTail(tail_opt, "Callsign")
        ELSE IF head \in {S_reg, S_registration} THEN WithTail(tail_opt, "Reg")
        ELSE IF head = S_type THEN WithTail(tail_opt, "Type")
        ELSE IF head \in {S_squawk, S_sqk} THEN WithTail(tail_opt, "Squawk")
        ELSE IF head = S_point
        THEN (IF tail_opt = None THEN None ELSE parse_point(Unwrap(tail_opt)))
        ELSE IF head = S_mil THEN Some(LookupKind("Mil", << >>))
        ELSE IF head = S_ladd THEN Some(LookupKind("Ladd", << >>))
        ELSE IF head = S_pia THEN Some(LookupKind("Pia", << >>))
        ELSE IF tail_opt /= None
        THEN Some(LookupKind("Callsign",
                             split_list(head \o << " " >> \o Unwrap(tail_opt))))
        ELSE Some(LookupKind("Callsign", << head >>))

-----------------------------------------------------------------------------
(* The lookup modal (app.rs), its keys and its channel drain in run_app    *)
(* (runtime.rs) and the lookup worker (lookup.rs).  A request and the      *)
(* message answering it carry `serial`, the number of the request, which   *)
(* the code does not have: it is there to tell the answers apart.          *)

LookupFrame ==
    /\ AlertsUntouched
    /\ UNCHANGED << now, cfgVars, snapVars, notifyVars, watchVars, routeVars, routeHist >>
    /\ UNCHANGED << pc, req_q, res_q, snap_q, feed_open, fetcher_pc, worker_pc,
                    g_sent, g_applied, g_avail, srcVars >>

LookupOp(name) == last_op' = name /\ emitted' = << >> /\ returned' = None

LookupStatus(text, count) == [text |-> text, count |-> count]

(* KeyCode::Char('g') in normal mode: App::open_lookup *)
OpenLookup ==
    /\ input_mode = "Normal"
    /\ lookup_input' = << >>
    /\ lookup_results' = None
    /\ lookup_status' = Some(LookupStatus("Enter: hex/callsign/reg/type/squawk/point/mil/ladd/pia", 0))
    /\ lookup_busy' = FALSE
    /\ input_mode' = "Lookup"
    /\ LookupOp("open_lookup")
    /\ UNCHANGED << lookup_req_q, lookup_res_q, lookup_worker,
                    g_lookup_issued, g_lookup_applied >>
    /\ LookupFrame

(* KeyCode::Esc in the modal: App::cancel_lookup *)
CancelLookup ==
    /\ input_mode = "Lookup"
    /\ lookup_input' = << >>
    /\ lookup_busy' = FALSE
    /\ input_mode' = "Normal"
    /\ LookupOp("cancel_lookup")
    /\ UNCHANGED << lookup_status, lookup_results, lookup_req_q, lookup_res_q,
                    lookup_worker, g_lookup_issued, g_lookup_applied >>
    /\ LookupFrame

MaxQueryLen == 2

(* KeyCode::Char(ch) in the modal: App::push_lookup_char *)
PushLookupChar(ch) ==
    /\ input_mode = "Lookup"
    /\ Len(lookup_input) < MaxQueryLen
    /\ lookup_input' = Append(lookup_input, ch)
    /\ LookupOp("push_lookup_char")
    /\ UNCHANGED << input_mode, lookup_status, lookup_results, lookup_busy,
                    lookup_req_q, lookup_res_q, lookup_worker,
                    g_lookup_issued, g_lookup_applied >>
    /\ LookupFrame

(* KeyCode::Backspace in the modal: App::backspace_lookup (String::pop) *)
BackspaceLookup ==
    /\ input_mode = "Lookup"
    /\ lookup_input' = IF lookup_input = << >> THEN << >>
                       ELSE SubSeq(lookup_input, 1, Len(lookup_input) - 1)
    /\ LookupOp("backspace_lookup")
    /\ UNCHANGED << input_mode, lookup_status, lookup_results, lookup_busy,
                    lookup_req_q, lookup_res_q, lookup_worker,
                    g_lookup_issued, g_lookup_applied >>
    /\ LookupFrame

(* App::prepare_lookup_request: the status it leaves, the busy flag and   *)
(* the kind of the request it returns, if any                              *)
prepare_lookup_request(busy, input) ==
    IF busy THEN [status |-> LookupStatus("Busy...", 0), busy |-> busy, kind |-> None]
    ELSE IF Trim(input) = << >>
    THEN [status |-> LookupStatus("Enter a query", 0), busy |-> busy, kind |-> None]
    ELSE LET kind == parse_lookup_input(Trim(input))
         IN  IF kind /= None
             THEN [status |-> LookupStatus("Fetching...", 0), busy |-> TRUE, kind |-> kind]
             ELSE [status |-> LookupStatus("Unrecognized query", 0), busy |-> busy,
                   kind |-> None]

MaxLookups == 2

(* KeyCode::Enter in the modal, the channels being there: the request, if *)
(* one is returned, is sent to the worker                                  *)
LookupEnter ==
    \E p \in {prepare_lookup_request(lookup_busy, lookup_input)} :
        /\ input_mode = "Lookup"
        /\ p.kind /= None => g_lookup_issued < MaxLookups
        /\ lookup_status' = Some(p.status)
        /\ lookup_busy' = p.busy
        /\ g_lookup_issued' = IF p.kind /= None THEN g_lookup_issued + 1
                              ELSE g_lookup_issued
        /\ lookup_req_q' = IF p.kind /= None
                           THEN Append(lookup_req_q,
                                       [kind |-> Unwrap(p.kind),
                                        serial |-> g_lookup_issued + 1])
                           ELSE lookup_req_q
        /\ last_op' = "prepare_lookup_request" /\ emitted' = << >>
        /\ returned' = None
        /\ UNCHANGED << input_mode, lookup_input, lookup_results, lookup_res_q,
                        lookup_worker, g_lookup_applied >>
        /\ LookupFrame

(* App::apply_lookup_result and App::apply_lookup_error on a message *)
apply_lookup_message(results, message) ==
    IF message.kind = "Result"
    THEN [results |-> Some(message.aircraft),
          status |-> LookupStatus("result(s)", Len(message.aircraft))]
    ELSE [results |-> results, status |-> LookupStatus("Error: HTTP 500", 0)]

(* one turn of `while let Ok(message) = lookup.res_rx.try_recv()` *)
HostLookupRecv ==
    /\ lookup_res_q /= << >>
    /\ \E r \in {apply_lookup_message(lookup_results, Head(lookup_res_q))} :
           /\ lookup_results' = r.results
           /\ lookup_status' = Some(r.status)
    /\ lookup_busy' = FALSE
    /\ lookup_res_q' = Tail(lookup_res_q)
    /\ g_lookup_applied' = Some(Head(lookup_res_q).serial)
    /\ LookupOp("apply_lookup_message")
    /\ UNCHANGED << input_mode, lookup_input, lookup_req_q, lookup_worker,
                    g_lookup_issued >>
    /\ LookupFrame

(* the lookup worker: rx.recv() *)
LookupWorkerRecv ==
    /\ lookup_worker = None /\ lookup_req_q /= << >>
    /\ lookup_worker' = Some(Head(lookup_req_q))
    /\ lookup_req_q' = Tail(lookup_req_q)
    /\ UNCHANGED << input_mode, lookup_input, lookup_status, lookup_results,
                    lookup_busy, lookup_res_q, g_lookup_issued, g_lookup_applied >>
    /\ UNCHANGED << last_op, emitted, returned, alertHist >>
    /\ UNCHANGED << now, cfgVars, snapVars, notifyVars, watchVars, routeVars, routeHist >>
    /\ UNCHANGED << pc, req_q, res_q, snap_q, feed_open, fetcher_pc, worker_pc,
                    g_sent, g_applied, g_avail, srcVars >>

(* the lookup worker: the call and the send of its outcome *)
LookupWorkerSend(ok) ==
    /\ lookup_worker /= None
    /\ lookup_res_q' = Append(lookup_res_q,
                              IF ok THEN [kind |-> "Result", aircraft |-> << >>,
                                          serial |-> Unwrap(lookup_worker).serial]
                              ELSE [kind |-> "Error", aircraft |-> << >>,
                                    serial |-> Unwrap(lookup_worker).serial])
    /\ lookup_worker' = None
    /\ UNCHANGED << input_mode, lookup_input, lookup_status, lookup_results,
                    lookup_busy, lookup_req_q, g_lookup_issued, g_lookup_applied >>
    /\ UNCHANGED << last_op, emitted, returned, alertHist >>
    /\ UNCHANGED << now, cfgVars, snapVars, notifyVars, watchVars, routeVars, routeHist >>
    /\ UNCHANGED << pc, req_q, res_q, snap_q, feed_open, fetcher_pc, worker_pc,
                    g_sent, g_applied, g_avail, srcVars >>

LookupChars == {"c", "s", " ", ":"}

InitLookup ==
    /\ InitState
    /\ NoSiteNoWatch
    /\ RouteConfigOff
    /\ smooth_mode = FALSE /\ smooth_merge = FALSE
    /\ trail_len = 1 /\ ui_interval = 100
    /\ msg_rate_window = 300 /\ msg_rate_min_secs = 250

NextLookup ==
    \/ OpenLookup
    \/ CancelLookup
    \/ \E ch \in LookupChars : PushLookupChar(ch)
    \/ BackspaceLookup
    \/ LookupEnter
    \/ HostLookupRecv
    \/ LookupWorkerRecv
    \/ \E ok \in BOOLEAN : LookupWorkerSend(ok)

SpecLookup == InitLookup /\ [][NextLookup]_vars

(* the requests handed out whose answer has not been applied: those in the *)
(* request channel, the one being fetched, and the answers in the result   *)
(* channel                                                                  *)
LookupsAtWorker == Len(lookup_req_q) + (IF lookup_worker = None THEN 0 ELSE 1)
LookupsAwaited == LookupsAtWorker + Len(lookup_res_q)

(* C39: prepare_lookup_request hands out a request only when no earlier   *)
(* request still awaits its answer, so the lookup worker never holds more  *)
(* than one request, and every result or error applied answers the request *)
(* handed out last                                                         *)
C39_AsStated ==
    [][ /\ g_lookup_issued' > g_lookup_issued => LookupsAwaited = 0
        /\ LookupsAtWorker' <= 1
        /\ g_lookup_applied' /= g_lookup_applied =>
               g_lookup_applied' = Some(g_lookup_issued)
      ]_vars

(* what the busy flag does ensure: no request is handed out while it is set *)
C39_BusyGuardsIssue ==
    [][ g_lookup_issued' > g_lookup_issued => (~lookup_busy /\ lookup_busy') ]_vars

(* two requests with the worker at once *)
C39_TwoAtWorker == LookupsAtWorker = 2

(* the answer to the first request applied after the second was handed out *)
C39_StaleApplied ==
    /\ last_op = "apply_lookup_message"
    /\ g_lookup_applied = Some(1) /\ g_lookup_issued = 2

-----------------------------------------------------------------------------
(* The cursor of the watchlist editor: App::open_watchlist,                *)
(* previous_watchlist_item, watchlist_page_up, watchlist_page_down; `len`  *)
(* is watchlist.len(), the cursor is 0-based                               *)

previous_watchlist_item(cursor, len) ==
    IF len = 0 THEN cursor
    ELSE IF cursor = 0 THEN len - 1 ELSE cursor - 1

watchlist_page_up(cursor, len, window) ==
    IF len = 0 \/ window = 0 THEN cursor
    ELSE Max(cursor - window, 0)

(* a page down that does not stop at the last rule *)
watchlist_page_down_unclamped(cursor, len, window) ==
    IF len = 0 \/ window = 0 THEN cursor
    ELSE cursor + window

watchlist_page_down(cursor, len, window) ==
    IF len = 0 \/ window = 0 THEN cursor
    ELSE Min(cursor + window, Max(len - 1, 0))

CursorMove(name, cursor) ==
    /\ watchlist_cursor' = cursor
    /\ last_op' = name /\ emitted' = << >> /\ returned' = None
    /\ UNCHANGED << watchlist_enabled, watchlist, notifications >>
    /\ EditorFrame

PreviousWatchlistItem ==
    CursorMove("previous_watchlist_item",
               previous_watchlist_item(watchlist_cursor, Len(watchlist)))

WatchlistPageUp(window) ==
    CursorMove("watchlist_page_up",
               watchlist_page_up(watchlist_cursor, Len(watchlist), window))

WatchlistPageDown(window) ==
    CursorMove("watchlist_page_down",
               watchlist_page_down(watchlist_cursor, Len(watchlist), window))

OpenWatchlist ==
    /\ watchlist_cursor' = 0
    /\ input_mode' = "Watchlist"
    /\ last_op' = "open_watchlist" /\ emitted' = << >> /\ returned' = None
    /\ UNCHANGED << watchlist_enabled, watchlist, notifications >>
    /\ AlertsUntouched
    /\ UNCHANGED << now, cfgVars, snapVars, notified_recent, watch_notified_recent,
                    routeVars, routeHist >>
    /\ UNCHANGED << pc, req_q, res_q, snap_q, feed_open, fetcher_pc, worker_pc,
                    g_sent, g_applied, g_avail, srcVars >>
    /\ UNCHANGED << lookup_input, lookup_status, lookup_results, lookup_busy,
                    lookup_req_q, lookup_res_q, lookup_worker,
                    g_lookup_issued, g_lookup_applied >>

(* the editor over a watchlist file of no, one or two rules, with one     *)
(* aircraft on the table to add                                            *)
CursorRule2 ==
    [WatchEntryDefault EXCEPT !.match_type = S_callsign, !.value = Str_EF3]

CursorWatchlists == { << >>, << RingRule >>, << RingRule, CursorRule2 >> }

CursorInputs == {[now |-> Some(1), messages |-> None, aircraft |-> << AcDal >>]}

CursorTargets == {None} \cup {Some(i) : i \in 1..Len(data.aircraft)}

(* the notifications after which the editor adds and deletes no more *)
MaxCursorNotes == 5

(* the rows a page holds *)
CursorWindows == {0, 1, 2}

InitCursor ==
    /\ InitState
    /\ EngineConfigSmall
    /\ site = None /\ demo_mode = FALSE
    /\ notify_radius_mi = 100 /\ overpass_mi = 5 /\ notify_cooldown = 10
    /\ watchlist_path = Some(S_path) /\ smooth_mode = FALSE /\ smooth_merge = FALSE
    /\ watchlist_enabled = FALSE /\ watchlist \in CursorWatchlists
    /\ RouteConfigOff

NextCursor ==
    \/ \E d \in CursorInputs : ApplyUpdate(d)
    \/ /\ Len(notifications) < MaxCursorNotes
       /\ \E target \in CursorTargets : AddWatchlistFromSelected(target, FALSE, "ok")
    \/ Len(notifications) < MaxCursorNotes /\ DeleteWatchlistSelected("ok")
    \/ NextWatchlistItem
    \/ PreviousWatchlistItem
    \/ \E window \in CursorWindows : WatchlistPageUp(window)
    \/ \E window \in CursorWindows : WatchlistPageDown(window)
    \/ OpenWatchlist

SpecCursor == InitCursor /\ [][NextCursor]_vars

CursorInRange == watchlist /= << >> => watchlist_cursor \in 0..(Len(watchlist) - 1)

(* the list without its rule at the 0-based index k *)
WithoutRule(list, k) == SubSeq(list, 1, k) \o SubSeq(list, k + 2, Len(list))

(* C40: under the editor's operations the cursor is an index into the     *)
(* watchlist whenever that is not empty; delete_watchlist_selected on an   *)
(* empty list returns false and changes nothing, and otherwise removes the *)
(* rule at the cursor and no other                                         *)
C40_CursorInRange ==
    /\ []CursorInRange
    /\ [][ last_op' = "delete_watchlist_selected" =>
             IF watchlist = << >>
             THEN /\ returned' = Some(FALSE)
                  /\ UNCHANGED << watchlist, watchlist_cursor, watchlist_enabled,
                                  notifications >>
             ELSE /\ returned' = Some(TRUE)
                  /\ Len(watchlist') = Len(watchlist) - 1
                  /\ watchlist' = WithoutRule(watchlist, watchlist_cursor)
         ]_vars

(* the last of three rules has been deleted with the cursor on it, after   *)
(* a rule was added and the cursor paged about                             *)
C40_Witness ==
    /\ last_op = "delete_watchlist_selected" /\ returned = Some(TRUE)
    /\ Len(watchlist) = 2 /\ watchlist_cursor = 1
    /\ watchlist_enabled

=============================================================================
